---- MODULE Spec2Model ----
(***************************************************************************)
(* AVD Lab TUI: the job registry (services/state.py), the command executor *)
(* (services/cli_runner.py) and the dashboard's job dispatch (app.py).     *)
(*                                                                         *)
(* Text is a sequence of atoms.  An atom is one character (" ", "\n", "a") *)
(* or a chunk of several characters none of which is a space, a line break *)
(* or a character a pattern of the program tests ("--config", "lab1").     *)
(* Optional[T] is a sequence of length 0 (None) or 1.                      *)
(***************************************************************************)
EXTENDS Integers, Sequences, FiniteSets, TLC

VARIABLES
    jobs,       \* StateManager._state.jobs, most recent first
    ret,        \* what the last update_job call returned (<<>> is None), or raised
    nAdded,     \* number of add_job calls so far
    lastStep,   \* the operation the last step performed, and for whom
    now,        \* the wall clock, in seconds
    tasks,      \* the asyncio tasks the dashboard created, in dispatch order
    call,       \* the verb wrapper call in progress (executor)
    run,        \* the run_command invocation of that call
    delivered,  \* the lines handed to the registered callback, in order
    spawned,    \* number of child processes created so far
    text,       \* the text handed to a parser function or to the extractor
    outcome,    \* what that function has computed so far
    listing,    \* the listing command's child process (_refresh_labs)
    labs,       \* Dashboard.labs
    output_display, \* the text shown in the dashboard's output panel
    state,      \* StateManager._state without its jobs (those are the variable jobs)
    state_file, \* the persisted state file ui-state.json (<<>> while it does not exist)
    child       \* the child process of run_command and its two pipes

vars == <<jobs, ret, nAdded, lastStep, now, tasks, call, run, delivered, spawned,
          text, outcome, listing, labs, output_display, state, state_file, child>>

registryVars == <<jobs, ret, nAdded>>
dashboardVars == <<now, tasks>>
execVars == <<call, run, delivered, spawned>>
parserVars == <<text, outcome>>
refreshVars == <<listing, labs, output_display>>
stateVars == <<state, state_file>>

(***************************************************************************)
(* Bounds of the model.                                                    *)
(***************************************************************************)
MaxAdds == 52       \* add_job calls in the registry specification
MaxLines == 2       \* lines the child writes to one stream
MaxTasks == 2       \* jobs the dashboard dispatches
MaxClock == 1       \* seconds the clock advances
DashMaxLines == 1   \* lines the children of all dashboard jobs write, in total
MaxTextLines == 3   \* lines of a text handed to a parse function

(***************************************************************************)
(* Text helpers.                                                           *)
(***************************************************************************)
NL == "\n"
SP == " "

Min(a, b) == IF a < b THEN a ELSE b

RECURSIVE JoinWith(_, _)
\* sep.join(parts)
JoinWith(sep, parts) ==
    IF parts = <<>> THEN <<>>
    ELSE IF Len(parts) = 1 THEN parts[1]
    ELSE parts[1] \o sep \o JoinWith(sep, Tail(parts))

RECURSIVE rstrip_nl(_)
\* s.rstrip('\n')
rstrip_nl(s) ==
    IF s # <<>> /\ s[Len(s)] = NL THEN rstrip_nl(SubSeq(s, 1, Len(s) - 1)) ELSE s

Contains(s, atom) == \E i \in 1..Len(s) : s[i] = atom

Range(s) == {s[i] : i \in 1..Len(s)}

(***************************************************************************)
(* services/state.py: Job and the job registry.                            *)
(***************************************************************************)
MAX_JOBS == 50

TerminalStatuses == {"succeeded", "failed", "cancelled"}

\* Job(id=..., type=..., target=..., status=..., start_time=...), the other
\* fields at their dataclass defaults.
Job(id, type, target, status, start_time) ==
    [id |-> id, type |-> type, target |-> target, status |-> status,
     start_time |-> start_time, duration |-> <<>>, last_log |-> <<>>, errors |-> <<>>]

add_job_evict_front(js, job) ==
    LET ins == <<job>> \o js
    IN  IF Len(ins) > MAX_JOBS THEN Tail(ins) ELSE ins

\* StateManager.add_job: insert at the front, pop the back when over MAX_JOBS.
add_job(js, job) ==
    LET ins == <<job>> \o js
    IN  IF Len(ins) > MAX_JOBS THEN SubSeq(ins, 1, Len(ins) - 1) ELSE ins

\* names besides the fields for which hasattr(job, key) is true: attributes
\* every instance has through its class
ObjectAttributes == {"__class__", "__doc__"}

\* hasattr(job, key)
hasattr(job, key) == key \in DOMAIN job \/ key \in ObjectAttributes

\* setattr(job, key, value) raises: __class__ takes a class only, and the
\* values of the model are none
setattr_raises(kwargs) == "__class__" \in DOMAIN kwargs

\* for key, value in kwargs.items(): if hasattr(job, key): setattr(job, key, value)
\* when no setattr raises; an attribute that is no field is added to the job
apply_kwargs(job, kwargs) ==
    [f \in DOMAIN job \cup {key \in DOMAIN kwargs : hasattr(job, key)} |->
        IF f \in DOMAIN kwargs THEN kwargs[f] ELSE job[f]]

HasId(js, id) == \E i \in 1..Len(js) : js[i].id = id

\* the first index, from the front, whose job has this id
FirstIndex(js, id) == CHOOSE i \in 1..Len(js) :
    js[i].id = id /\ \A k \in 1..(i - 1) : js[k].id # id

update_job_upsert(js, id, kwargs) ==
    IF HasId(js, id)
    THEN LET i == FirstIndex(js, id)
             j == apply_kwargs(js[i], kwargs)
         IN  [jobs |-> [js EXCEPT ![i] = j], ret |-> <<j>>]
    ELSE LET j == apply_kwargs(Job(id, "create", <<>>, "queued", 0), kwargs)
         IN  [jobs |-> add_job(js, j), ret |-> <<j>>]

\* StateManager.update_job: the registry after the call and the value returned.
\* A setattr that raises ends the call with its TypeError (the model names
\* __class__ alone, so no field was set before it).
update_job(js, id, kwargs) ==
    IF HasId(js, id)
    THEN IF setattr_raises(kwargs)
         THEN [jobs |-> js, ret |-> << [raised |-> "TypeError"] >>]
         ELSE LET i == FirstIndex(js, id)
                  j == apply_kwargs(js[i], kwargs)
              IN  [jobs |-> [js EXCEPT ![i] = j], ret |-> <<j>>]
    ELSE [jobs |-> js, ret |-> <<>>]

\* StateManager.get_jobs
get_jobs == jobs

(***************************************************************************)
(* The registry driven directly: add_job with ids the caller keeps fresh,  *)
(* update_job with ids that are present, evicted or were never added.      *)
(***************************************************************************)
RegId(n) == <<"create", <<"p">>, n>>

\* ids update_job is called with: the two oldest jobs and one never added
RegUpdateIds == {RegId(1), RegId(2), RegId(0)}

RegKwargs ==
    { [last_log |-> <<"line">>],
      [status |-> "succeeded", duration |-> <<1>>],
      [status |-> "failed", duration |-> <<1>>, errors |-> << <<"boom">> >>],
      [progress |-> 1],
      ("__class__" :> <<"x">>) }

\* UIState(): the dataclass defaults of every field but jobs
UIState ==
    [recent_participants |-> <<>>, last_config_path |-> <<>>, last_ttl |-> "8h",
     recently_selected_lab_ids |-> <<>>, last_refresh_time |-> <<>>,
     last_subscription_id |-> <<>>, last_rg_mode |-> "new_per_lab",
     recent_rg_names |-> <<>>]

\* state_path.exists() is false
NoFile == <<>>

\* no child process has been started
NoChild == [pc |-> "none"]

\* a StateManager constructed where no state file exists, and no child
InitState ==
    /\ state = UIState
    /\ state_file = NoFile
    /\ child = NoChild

NoStep == [op |-> "none", task |-> 0, id |-> <<>>]

InitOther ==
    /\ now = 0
    /\ tasks = <<>>
    /\ call = <<>>
    /\ run = <<>>
    /\ delivered = <<>>
    /\ spawned = 0
    /\ text = <<>>
    /\ outcome = <<>>
    /\ listing = <<>>
    /\ labs = <<>>
    /\ output_display = <<>>
    /\ InitState

InitRegistry ==
    /\ jobs = <<>>
    /\ ret = <<>>
    /\ nAdded = 0
    /\ lastStep = NoStep
    /\ InitOther

\* the caller adds RegId(1), RegId(2), ... in this order
RegAddJob ==
    /\ nAdded < MaxAdds
    /\ jobs' = add_job(jobs, Job(RegId(nAdded + 1), "create", <<"p">>, "running", 0))
    /\ nAdded' = nAdded + 1
    /\ lastStep' = [op |-> "add_job", task |-> 0, id |-> RegId(nAdded + 1)]
    /\ UNCHANGED <<ret, dashboardVars, execVars, parserVars, refreshVars, stateVars, child>>

RegUpdateJob ==
    \E id \in RegUpdateIds, kw \in RegKwargs :
        LET u == update_job(jobs, id, kw)
        IN  /\ jobs' = u.jobs
            /\ ret' = u.ret
            /\ lastStep' = [op |-> "update_job", task |-> 0, id |-> id]
            /\ UNCHANGED <<nAdded, dashboardVars, execVars, parserVars, refreshVars, stateVars, child>>

NextRegistry == RegAddJob \/ RegUpdateJob

SpecRegistry == InitRegistry /\ [][NextRegistry]_vars

\* C2: after n add_job calls get_jobs() holds exactly the min(n, MAX_JOBS) most
\* recently added jobs, most recent first: never more than MAX_JOBS, the new job
\* at the front, the others in their order, the oldest evicted.
C2_MostRecentFirstBounded ==
    /\ Len(get_jobs) <= MAX_JOBS
    /\ Len(get_jobs) = Min(nAdded, MAX_JOBS)
    /\ \A i \in 1..Len(get_jobs) : get_jobs[i].id = RegId(nAdded - i + 1)

\* an eviction has happened: more than MAX_JOBS adds, the registry is full and
\* its back is the oldest job that still fits
C2_Witness ==
    /\ nAdded > MAX_JOBS
    /\ Len(jobs) = MAX_JOBS
    /\ jobs[MAX_JOBS].id = RegId(nAdded - MAX_JOBS + 1)

\* C3: update_job with an id that no job of the registry has, an evicted one
\* included, returns None and leaves the registry as it was: same length, same
\* order, every field of every job.
C3_UpdateUnknownIdIsNoOp ==
    [][(lastStep'.op = "update_job" /\ ~HasId(jobs, lastStep'.id))
          => (jobs' = jobs /\ ret' = <<>>)]_vars

\* update_job was just called with the id of a job that was evicted earlier
C3_Witness ==
    /\ lastStep.op = "update_job"
    /\ lastStep.id = RegId(1)
    /\ nAdded > MAX_JOBS
    /\ ~HasId(jobs, RegId(1))
    /\ ret = <<>>

\* C20: update_job with an id of the registry sets exactly the named fields
\* that exist on the first job of that id, ignores names that are no Job
\* fields, returns that job, and leaves the other jobs, the unnamed fields,
\* the length and the order of the registry as they were.
C20_UpdateSetsOnlyNamedFields ==
    [][(lastStep'.op = "update_job" /\ HasId(jobs, lastStep'.id)) =>
          LET i == FirstIndex(jobs, lastStep'.id)
          IN  /\ Len(jobs') = Len(jobs)
              /\ \A k \in 1..Len(jobs) : k # i => jobs'[k] = jobs[k]
              /\ DOMAIN jobs'[i] = DOMAIN jobs[i]
              /\ \E kw \in RegKwargs :
                    \A f \in DOMAIN jobs[i] :
                        jobs'[i][f] = IF f \in DOMAIN kw THEN kw[f] ELSE jobs[i][f]
              /\ ret' = << jobs'[i] >>]_vars

(***************************************************************************)
(* services/cli_runner.py: exit codes, CommandResult, validators.          *)
(***************************************************************************)
SUCCESS == 0
VALIDATION_ERROR == 1
AZURE_ERROR == 2
SAFETY_BLOCKED == 3

CommandResult_always_success(exit_code, stdout, stderr, command) ==
    [exit_code |-> exit_code, stdout |-> stdout, stderr |-> stderr,
     command |-> command, success |-> TRUE]

\* CommandResult(...) and its __post_init__
CommandResult(exit_code, stdout, stderr, command) ==
    [exit_code |-> exit_code, stdout |-> stdout, stderr |-> stderr,
     command |-> command, success |-> (exit_code = SUCCESS)]

SCRIPT_PATH == <<"/home/ff/.openclaw/workspace/repos/azure-ai-one-day-workshop/avd-lab/avd-lab.sh">>

\* CliRunner._build_command: the argument vector, one text per argument
_build_command(command, args) == <<SCRIPT_PATH, command>> \o args

Quote(arg) == IF Contains(arg, SP) THEN <<"\"">> \o arg \o <<"\"">> ELSE arg

\* CliRunner._format_command_for_display
_format_command_for_display(cmd) ==
    JoinWith(<<SP>>, [i \in 1..Len(cmd) |-> Quote(cmd[i])])

LowerLetters ==
    {"a", "b", "c", "d", "e", "f", "g", "h", "i", "j", "k", "l", "m",
     "n", "o", "p", "q", "r", "s", "t", "u", "v", "w", "x", "y", "z"}
DigitChars == {"0", "1", "2", "3", "4", "5", "6", "7", "8", "9"}

\* a pattern's final $ (no MULTILINE) under match(): the end of the text, or
\* just before a line break that ends the text
DollarBody(s) == IF s # <<>> /\ s[Len(s)] = NL THEN SubSeq(s, 1, Len(s) - 1) ELSE s
MatchEnds(s) == {s, DollarBody(s)}

\* PARTICIPANT_PATTERN = ^[a-z0-9-]+$
PARTICIPANT_PATTERN(s) ==
    \E b \in MatchEnds(s) :
        /\ b # <<>>
        /\ \A i \in 1..Len(b) : b[i] \in LowerLetters \cup DigitChars \cup {"-"}

\* TTL_PATTERN = ^[0-9]+[hd]$
TTL_PATTERN(s) ==
    \E b \in MatchEnds(s) :
        /\ Len(b) >= 2
        /\ \A i \in 1..(Len(b) - 1) : b[i] \in DigitChars
        /\ b[Len(b)] \in {"h", "d"}

\* the files of the file system (os.path.isfile)
ExistingFiles == { <<"/", "lab-dev.json">>, <<"lab-dev.json">> }

\* os.path.isabs on a POSIX system
isabs(path) == path # <<>> /\ path[1] = "/"

\* CliRunner.validate_config_path
validate_config_path(config_path) ==
    IF ~isabs(config_path) THEN FALSE ELSE config_path \in ExistingFiles

\* CliRunner.validate_participant
validate_participant(participant) == PARTICIPANT_PATTERN(participant)

validate_ttl_any(ttl) == TRUE

\* CliRunner.validate_ttl
validate_ttl(ttl) == TTL_PATTERN(ttl)

\* truth value of an Optional[str]: neither None nor ""
Truthy(opt) == opt # <<>> /\ opt[1] # <<>>

RECURSIVE Words(_)
\* the text of a message: its words, one space between two
Words(ws) ==
    IF ws = <<>> THEN <<>>
    ELSE IF Len(ws) = 1 THEN <<ws[1]>>
    ELSE <<ws[1], SP>> \o Words(Tail(ws))

\* what a verb wrapper does: return a result at once, or call run_command
Rejected(stderr) ==
    [kind |-> "result", result |-> CommandResult(VALIDATION_ERROR, <<>>, stderr, <<>>)]
Invoke(args) == [kind |-> "run_command", command |-> args[1], args |-> Tail(args)]

InvalidConfigPath(config_path) ==
    Rejected(Words(<<"Invalid", "config", "path:">>) \o <<SP>> \o config_path)

\* CliRunner.validate
validate(config_path) ==
    IF ~validate_config_path(config_path) THEN InvalidConfigPath(config_path)
    ELSE Invoke(<< <<"validate">>, <<"--config">>, config_path >>)

create_without_rg_name(config_path, participant, ttl, subscription_id, rg_mode, rg_name) ==
    IF ~validate_config_path(config_path) THEN InvalidConfigPath(config_path)
    ELSE IF ~validate_participant(participant)
    THEN Rejected(Words(<<"Invalid", "participant", "slug:">>) \o <<SP>> \o participant
                  \o <<".", SP>> \o Words(<<"Must", "match", "^[a-z0-9-]+$">>))
    ELSE IF ~validate_ttl(ttl)
    THEN Rejected(Words(<<"Invalid", "TTL", "format:">>) \o <<SP>> \o ttl \o <<".", SP>>
                  \o Words(<<"Use", "format", "like", "'8h'", "or", "'1d'">>))
    ELSE Invoke(<< <<"create">>, <<"--config">>, config_path,
                   <<"--participant">>, participant, <<"--ttl">>, ttl >>
                \o (IF Truthy(subscription_id)
                    THEN << <<"--subscription">>, subscription_id[1] >> ELSE <<>>)
                \o (IF rg_mode # <<>> THEN << <<"--rg-mode">>, rg_mode >> ELSE <<>>))

\* CliRunner.create
create(config_path, participant, ttl, subscription_id, rg_mode, rg_name) ==
    IF ~validate_config_path(config_path) THEN InvalidConfigPath(config_path)
    ELSE IF ~validate_participant(participant)
    THEN Rejected(Words(<<"Invalid", "participant", "slug:">>) \o <<SP>> \o participant
                  \o <<".", SP>> \o Words(<<"Must", "match", "^[a-z0-9-]+$">>))
    ELSE IF ~validate_ttl(ttl)
    THEN Rejected(Words(<<"Invalid", "TTL", "format:">>) \o <<SP>> \o ttl \o <<".", SP>>
                  \o Words(<<"Use", "format", "like", "'8h'", "or", "'1d'">>))
    ELSE Invoke(<< <<"create">>, <<"--config">>, config_path,
                   <<"--participant">>, participant, <<"--ttl">>, ttl >>
                \o (IF Truthy(subscription_id)
                    THEN << <<"--subscription">>, subscription_id[1] >> ELSE <<>>)
                \o (IF rg_mode # <<>> THEN << <<"--rg-mode">>, rg_mode >> ELSE <<>>)
                \o (IF Truthy(rg_name) THEN << <<"--rg-name">>, rg_name[1] >> ELSE <<>>))

TargetedVerb_both(first, lab_id, participant) ==
    IF Truthy(lab_id)
    THEN Invoke(first \o << <<"--lab-id">>, lab_id[1] >>
                \o (IF Truthy(participant)
                    THEN << <<"--participant">>, participant[1] >> ELSE <<>>))
    ELSE IF Truthy(participant)
    THEN IF ~validate_participant(participant[1])
         THEN Rejected(Words(<<"Invalid", "participant", "slug:">>) \o <<SP>> \o participant[1])
         ELSE Invoke(first \o << <<"--participant">>, participant[1] >>)
    ELSE Rejected(Words(<<"Either", "lab_id", "or", "participant", "is", "required">>))

\* the shared shape of destroy and status: first, then one target option
TargetedVerb(first, lab_id, participant) ==
    IF Truthy(lab_id) THEN Invoke(first \o << <<"--lab-id">>, lab_id[1] >>)
    ELSE IF Truthy(participant)
    THEN IF ~validate_participant(participant[1])
         THEN Rejected(Words(<<"Invalid", "participant", "slug:">>) \o <<SP>> \o participant[1])
         ELSE Invoke(first \o << <<"--participant">>, participant[1] >>)
    ELSE Rejected(Words(<<"Either", "lab_id", "or", "participant", "is", "required">>))

\* CliRunner.destroy
destroy(lab_id, participant) ==
    TargetedVerb(<< <<"destroy">>, <<"--yes">> >>, lab_id, participant)

\* CliRunner.status
status(lab_id, participant) ==
    TargetedVerb(<< <<"status">> >>, lab_id, participant)

Digits == <<"0", "1", "2", "3", "4", "5", "6", "7", "8", "9">>

RECURSIVE str(_)
\* str(n) of a natural number
str(n) == IF n < 10 THEN <<Digits[n + 1]>> ELSE str(n \div 10) \o <<Digits[(n % 10) + 1]>>

\* CliRunner.estimate_cost
estimate_cost(config_path, hours) ==
    IF ~validate_config_path(config_path) THEN InvalidConfigPath(config_path)
    ELSE Invoke(<< <<"estimate-cost">>, <<"--config">>, config_path, <<"--hours">>, str(hours) >>)


(***************************************************************************)
(* CliRunner.run_command as a state machine.  A run is                     *)
(*   pc          "spawning" (awaiting create_subprocess_exec), "draining"  *)
(*               (awaiting gather, then process.wait), "returned"          *)
(*   rd          per stream, the read_stream task: "reading", "eof" (it    *)
(*               returned) or "raised" (readline raised)                   *)
(*   lines       stdout_lines and stderr_lines                             *)
(*   written     per stream, the raw lines readline has returned           *)
(*   spawn_error the error create_subprocess_exec raised, if it did        *)
(*   exited      the child's exit code once process.wait returned it       *)
(***************************************************************************)
Streams == {"stdout", "stderr"}

\* run_command up to its first await
run_command_begin(command, args, callback) ==
    LET cmd == _build_command(command, args)
    IN  [pc |-> "spawning",
         cmd |-> cmd,
         command_str |-> _format_command_for_display(cmd),
         callback |-> callback,
         rd |-> [st \in Streams |-> "none"],
         lines |-> [st \in Streams |-> <<>>],
         written |-> [st \in Streams |-> <<>>],
         spawn_error |-> <<>>,
         exited |-> <<>>,
         result |-> <<>>]

\* the except branch: the synthesized result
ExceptResult(r, e) == CommandResult(1, <<>>, e, r.command_str)

spawn_failed_propagates(r, e) ==
    [r EXCEPT !.pc = "raised", !.spawn_error = <<e>>]

\* create_subprocess_exec raised e
spawn_failed(r, e) ==
    [r EXCEPT !.pc = "returned", !.spawn_error = <<e>>, !.result = <<ExceptResult(r, e)>>]

spawn_ok_stdout_only(r) ==
    [r EXCEPT !.pc = "draining",
              !.rd = [st \in Streams |-> IF st = "stdout" THEN "reading" ELSE "none"]]

\* create_subprocess_exec returned the process; gather starts both readers
spawn_ok(r) ==
    [r EXCEPT !.pc = "draining", !.rd = [st \in Streams |-> "reading"]]

\* line.decode('utf-8', errors='replace').rstrip('\n')
decoded(raw) == rstrip_nl(raw)

\* read_stream: readline returned a line; it is decoded and appended
read_line(r, st, raw) ==
    [r EXCEPT !.lines[st] = @ \o <<decoded(raw)>>, !.written[st] = @ \o <<raw>>]

\* read_stream: readline returned b"", the loop breaks
read_eof(r, st) == [r EXCEPT !.rd[st] = "eof"]

\* read_stream: readline raised e (a line longer than the reader's limit);
\* gather passes it on to run_command if that is still waiting, and leaves
\* the other reader running
read_raised(r, st, e) ==
    IF r.pc = "draining"
    THEN [r EXCEPT !.rd[st] = "raised", !.pc = "returned", !.result = <<ExceptResult(r, e)>>]
    ELSE [r EXCEPT !.rd[st] = "raised"]

Drained(r) == \A st \in Streams : r.rd[st] = "eof"

\* gather returned, process.wait returned code, the result is built
process_wait(r, code) ==
    [r EXCEPT !.pc = "returned", !.exited = <<code>>,
              !.result = <<CommandResult(code,
                                         JoinWith(<<NL>>, r.lines["stdout"]),
                                         JoinWith(<<NL>>, r.lines["stderr"]),
                                         r.command_str)>>]

\* what the child writes and how it ends
RawLines ==
    [stdout |-> { <<"AVD", SP, "Lab", SP, "destroyed", SP, "successfully", NL>>,
                  <<"[ERROR]", SP, "boom", NL>> },
     stderr |-> { <<"warn", NL>> }]
ChildExitCodes == {SUCCESS, VALIDATION_ERROR, AZURE_ERROR, SAFETY_BLOCKED}
SpawnErrors == { Words(<<"[Errno", "13]", "Permission", "denied">>) }
ReadErrors == { Words(<<"Separator", "is", "not", "found,", "and", "chunk", "exceed", "the", "limit">>) }

(***************************************************************************)
(* The executor driven directly: one verb wrapper call, with its inputs    *)
(* from small sets, and the child process it may start.                    *)
(***************************************************************************)
HasUpper == <<"H", "a", "s", "_", "U", "p", "p", "e", "r">>

ExecConfigPaths == { <<"/", "lab-dev.json">>, <<"/", "missing.json">>, <<"lab-dev.json">> }
ExecParticipants == { <<"a", "1">>, <<"a", "-", "b", NL>>, HasUpper, <<"a", SP, "b">>, <<>> }
ExecTtls == { <<"8", "h">>, <<"1", "2", "d", NL>>, <<"8", "x">>, <<"h">>, <<"8">>, <<>> }
ExecSubscriptions == { <<>>, << <<"sub-123">> >> }
ExecRgModes == { <<"new_per_lab">>, <<>> }
ExecRgNames == { <<>>, << <<"rg", SP, "one">> >> }
ExecLabIds == { <<>>, << <<>> >>, << <<"azure-test-1">> >> }
ExecOptParticipants == { <<>>, << <<"a", "1">> >>, << HasUpper >> }
ExecHours == {8, 24}

NoSubscription == <<>>
NoRgName == <<>>

ExecCalls ==
    [verb : {"validate"}, config_path : ExecConfigPaths]
    \cup [verb : {"create"}, config_path : ExecConfigPaths, participant : ExecParticipants,
          ttl : ExecTtls, subscription_id : {NoSubscription}, rg_mode : ExecRgModes,
          rg_name : {NoRgName}]
    \cup [verb : {"create"}, config_path : { <<"/", "lab-dev.json">> },
          participant : { <<"a", "1">> }, ttl : { <<"8", "h">> },
          subscription_id : ExecSubscriptions, rg_mode : ExecRgModes, rg_name : ExecRgNames]
    \cup [verb : {"destroy", "status"}, lab_id : ExecLabIds, participant : ExecOptParticipants]
    \cup [verb : {"estimate_cost"}, config_path : ExecConfigPaths, hours : ExecHours]

\* the wrapper the call names, applied to the call's arguments
Wrapper(c) ==
    CASE c.verb = "validate" -> validate(c.config_path)
      [] c.verb = "create" -> create(c.config_path, c.participant, c.ttl,
                                     c.subscription_id, c.rg_mode, c.rg_name)
      [] c.verb = "destroy" -> destroy(c.lab_id, c.participant)
      [] c.verb = "status" -> status(c.lab_id, c.participant)
      [] c.verb = "estimate_cost" -> estimate_cost(c.config_path, c.hours)

NoCall == [pc |-> "idle"]
NoRun == [pc |-> "none"]

InitExec ==
    /\ call = NoCall
    /\ run = NoRun
    /\ delivered = <<>>
    /\ spawned = 0
    /\ jobs = <<>>
    /\ ret = <<>>
    /\ nAdded = 0
    /\ lastStep = NoStep
    /\ now = 0
    /\ tasks = <<>>
    /\ text = <<>>
    /\ outcome = <<>>
    /\ listing = <<>>
    /\ labs = <<>>
    /\ output_display = <<>>
    /\ InitState

ExecUnchanged == UNCHANGED <<registryVars, lastStep, dashboardVars, parserVars, refreshVars, stateVars, child>>

\* a wrapper is called; it returns at once or enters run_command
ExecCall ==
    /\ call.pc = "idle"
    /\ \E c \in ExecCalls, cb \in BOOLEAN :
        LET w == Wrapper(c)
        IN  IF w.kind = "result"
            THEN /\ call' = [pc |-> "returned", args |-> c, result |-> <<w.result>>]
                 /\ run' = run
            ELSE /\ call' = [pc |-> "in_run_command", args |-> c, result |-> <<>>]
                 /\ run' = run_command_begin(w.command, w.args, cb)
    /\ UNCHANGED <<delivered, spawned>>
    /\ ExecUnchanged

ExecSpawnFails ==
    /\ run.pc = "spawning"
    /\ \E e \in SpawnErrors : run' = spawn_failed(run, e)
    /\ UNCHANGED <<call, delivered, spawned>>
    /\ ExecUnchanged

ExecSpawnOk ==
    /\ run.pc = "spawning"
    /\ run' = spawn_ok(run)
    /\ spawned' = spawned + 1
    /\ UNCHANGED <<call, delivered>>
    /\ ExecUnchanged

\* a reader gets a line: append, then the callback if one is registered
ExecReadLine ==
    /\ run.pc \in {"draining", "returned"}
    /\ \E st \in Streams :
        /\ run.rd[st] = "reading"
        /\ Len(run.written[st]) < MaxLines
        /\ \E raw \in RawLines[st] :
            /\ run' = read_line(run, st, raw)
            /\ delivered' = IF run.callback
                            THEN Append(delivered, [stream |-> st, line |-> decoded(raw)])
                            ELSE delivered
    /\ UNCHANGED <<call, spawned>>
    /\ ExecUnchanged

ExecReadEof ==
    /\ run.pc \in {"draining", "returned"}
    /\ \E st \in Streams :
        /\ run.rd[st] = "reading"
        /\ run' = read_eof(run, st)
    /\ UNCHANGED <<call, delivered, spawned>>
    /\ ExecUnchanged

ExecReadRaises ==
    /\ run.pc \in {"draining", "returned"}
    /\ \E st \in Streams, e \in ReadErrors :
        /\ run.rd[st] = "reading"
        /\ run' = read_raised(run, st, e)
    /\ UNCHANGED <<call, delivered, spawned>>
    /\ ExecUnchanged

ExecProcessWait ==
    /\ run.pc = "draining"
    /\ Drained(run)
    /\ \E code \in ChildExitCodes : run' = process_wait(run, code)
    /\ UNCHANGED <<call, delivered, spawned>>
    /\ ExecUnchanged

\* run_command's result is the wrapper's result
ExecReturn ==
    /\ call.pc = "in_run_command"
    /\ run.pc = "returned"
    /\ call' = [call EXCEPT !.pc = "returned", !.result = run.result]
    /\ UNCHANGED <<run, delivered, spawned>>
    /\ ExecUnchanged

NextExec ==
    \/ ExecCall
    \/ ExecSpawnFails
    \/ ExecSpawnOk
    \/ ExecReadLine
    \/ ExecReadEof
    \/ ExecReadRaises
    \/ ExecProcessWait
    \/ ExecReturn

SpecExec == InitExec /\ [][NextExec]_vars


\* a pre-flight check of the wrapper the call names fails: the config path is
\* not absolute or no file, the participant or the ttl does not match its
\* pattern, or neither a lab id nor a participant is given
PreflightFails(c) ==
    CASE c.verb \in {"validate", "estimate_cost"} ->
            ~(isabs(c.config_path) /\ c.config_path \in ExistingFiles)
      [] c.verb = "create" ->
            \/ ~(isabs(c.config_path) /\ c.config_path \in ExistingFiles)
            \/ ~PARTICIPANT_PATTERN(c.participant)
            \/ ~TTL_PATTERN(c.ttl)
      [] c.verb \in {"destroy", "status"} ->
            /\ ~Truthy(c.lab_id)
            /\ (Truthy(c.participant) => ~PARTICIPANT_PATTERN(c.participant[1]))

\* C6: when a pre-flight check of a verb wrapper fails, the wrapper returns a
\* CommandResult with exit_code 1 (VALIDATION_ERROR), run_command is not invoked
\* and no child process is spawned.
C6_PreflightFailureNeverSpawns ==
    (call.pc # "idle" /\ PreflightFails(call.args)) =>
        /\ call.pc = "returned"
        /\ call.result # <<>>
        /\ call.result[1].exit_code = VALIDATION_ERROR
        /\ run = NoRun
        /\ spawned = 0

\* create was called with a good config path, participant "Has_Upper" and ttl
\* "8x", and has returned
C6_Witness ==
    /\ call.pc = "returned"
    /\ call.args.verb = "create"
    /\ validate_config_path(call.args.config_path)
    /\ call.args.participant = HasUpper
    /\ call.args.ttl = <<"8", "x">>
    /\ call.result[1].exit_code = 1
    /\ run = NoRun

\* C7: when spawning the child fails, run_command raises nothing and returns
\* exit_code 1, stdout "", stderr the error text and command the display form of
\* the attempted command.
C7_SpawnFailureIsAResult ==
    (run.pc # "none" /\ run.spawn_error # <<>>) =>
        /\ run.pc = "returned"
        /\ run.result = << [exit_code |-> 1, stdout |-> <<>>, stderr |-> run.spawn_error[1],
                            command |-> _format_command_for_display(run.cmd),
                            success |-> FALSE] >>
        /\ spawned = 0
        /\ call.pc = "returned" => call.result = run.result

\* the spawn of a create with a resource group name that holds a space failed,
\* and the caller has the result, the name quoted in its command text
C7_Witness ==
    /\ call.pc = "returned"
    /\ run.pc = "returned"
    /\ run.spawn_error # <<>>
    /\ call.args.verb = "create"
    /\ Truthy(call.args.rg_name)
    /\ call.result[1].exit_code = 1
    /\ call.result[1].stderr \in SpawnErrors
    /\ Contains(call.result[1].command, "\"")

\* every CommandResult the executor has produced so far
ProducedResults ==
    (IF call.pc = "returned" THEN {call.result[1]} ELSE {})
    \cup (IF run.pc = "returned" THEN {run.result[1]} ELSE {})

\* C8: every CommandResult the executor produces (normal completion, validation
\* failure, spawn failure) has success = (exit_code = 0), whatever its stdout
\* and stderr hold.
C8_SuccessIffExitZero ==
    \A r \in ProducedResults : r.success = (r.exit_code = 0)

\* a child that printed an [ERROR] line exited 0: the result is a success
C8_Witness ==
    /\ run.pc = "returned"
    /\ run.exited = <<0>>
    /\ Contains(run.result[1].stdout, "[ERROR]")
    /\ run.result[1].success

\* the lines delivered to the callback for one stream, in delivery order
DeliveredOf(st) ==
    LET sel == SelectSeq(delivered, LAMBDA d : d.stream = st)
    IN  [i \in 1..Len(sel) |-> sel[i].line]

\* C9: within a stream, every line read is appended to the stream's buffer and
\* delivered to the registered callback exactly once, in the order read, and
\* the returned stdout / stderr is exactly the lines of that stream in the order
\* they were read.
C9_LinesInOrderAndReturned ==
    (run.pc \in {"draining", "returned"} /\ run.spawn_error = <<>>) =>
        /\ \A st \in Streams :
            /\ run.lines[st] = [i \in 1..Len(run.written[st]) |-> decoded(run.written[st][i])]
            /\ run.callback => DeliveredOf(st) = run.lines[st]
        /\ ~run.callback => delivered = <<>>
        /\ run.pc = "returned" =>
            /\ run.result[1].stdout = JoinWith(<<NL>>, run.lines["stdout"])
            /\ run.result[1].stderr = JoinWith(<<NL>>, run.lines["stderr"])

\* C10: when the child was spawned, run_command returns only after both
\* streams reached end-of-stream and the child exited, with the child's exit
\* code unchanged and every line read in stdout and stderr.
C10_ReturnsAfterDrainWithChildCode ==
    (run.pc = "returned" /\ run.spawn_error = <<>>) =>
        /\ Drained(run)
        /\ run.exited # <<>>
        /\ run.result[1].exit_code = run.exited[1]
        /\ run.result[1].stdout = JoinWith(<<NL>>, run.lines["stdout"])
        /\ run.result[1].stderr = JoinWith(<<NL>>, run.lines["stderr"])


(***************************************************************************)
(* services/parser.py: OutputParser.  A pattern of PATTERNS is modelled by *)
(* the matches Python's re finds for it: the leftmost position where the   *)
(* pattern matches, a greedy \s* that also runs over line breaks, (.+) up  *)
(* to the end of its line.  A key phrase is the sequence of its atoms, the *)
(* colon an atom of its own ("Lab", " ", "ID", ":"); "[ERROR]", "[WARN]",  *)
(* "$" and an amount such as "1.23" are atoms.                             *)
(***************************************************************************)
HasSubSeq(s, t) == \E i \in 1..(Len(s) - Len(t) + 1) : SubSeq(s, i, i + Len(t) - 1) = t

Whitespace == {SP, NL, "\t", "\r"}

RECURSIVE strip(_)
\* s.strip()
strip(s) ==
    IF s = <<>> THEN s
    ELSE IF s[1] \in Whitespace THEN strip(Tail(s))
    ELSE IF s[Len(s)] \in Whitespace THEN strip(SubSeq(s, 1, Len(s) - 1))
    ELSE s

SetMax(S) == CHOOSE x \in S : \A y \in S : y <= x
SetMin(S) == CHOOSE x \in S : \A y \in S : x <= y

\* the last position of the line that holds position i ($ under MULTILINE)
LineEnd(s, i) == SetMax({e \in i..Len(s) : \A k \in i..e : s[k] # NL})

\* ^ under MULTILINE: the start of the text or just after a line break
LineStart(s, i) == i = 1 \/ s[i - 1] = NL

\* where the group of \[ERROR\]\s*(.+)$ starts when "[ERROR]" is at i: \s* is
\* greedy and gives back until a character other than a line break follows
GroupStarts(s, i) ==
    {g \in (i + 1)..Len(s) : s[g] # NL /\ \A k \in (i + 1)..(g - 1) : s[k] \in Whitespace}

RECURSIVE error_groups(_, _)
\* PATTERNS['error'].finditer(output) from position p on: group(1).strip()
error_groups(s, p) ==
    LET at == {i \in p..Len(s) : s[i] = "[ERROR]" /\ GroupStarts(s, i) # {}}
    IN  IF at = {} THEN <<>>
        ELSE LET i == SetMin(at)
                 g == SetMax(GroupStarts(s, i))
                 e == LineEnd(s, g)
             IN  <<strip(SubSeq(s, g, e))>> \o error_groups(s, e + 1)

RECURSIVE warning_groups(_, _)
\* PATTERNS['warning'].finditer(output) from position p on: group(1).strip()
warning_groups(s, p) ==
    LET at == {i \in p..Len(s) : s[i] = "[WARN]" /\ GroupStarts(s, i) # {}}
    IN  IF at = {} THEN <<>>
        ELSE LET i == SetMin(at)
                 g == SetMax(GroupStarts(s, i))
                 e == LineEnd(s, g)
             IN  <<strip(SubSeq(s, g, e))>> \o warning_groups(s, e + 1)

\* the key phrase starts at position i
KeyAt(s, i, key) ==
    i >= 1 /\ i + Len(key) - 1 <= Len(s) /\ SubSeq(s, i, i + Len(key) - 1) = key

\* the positions >= p where KEY\s*(.+)$ matches (with ^ in front when anchored)
FieldMatches(s, p, key, anchored) ==
    {i \in p..Len(s) : /\ KeyAt(s, i, key)
                       /\ anchored => LineStart(s, i)
                       /\ GroupStarts(s, i + Len(key) - 1) # {}}

\* where group(1) of the match at i starts
FieldGroupStart(s, i, key) == SetMax(GroupStarts(s, i + Len(key) - 1))

\* pattern.search(output) for KEY\s*(.+)$: None, or group(1).strip()
search_field(s, key, anchored) ==
    LET m == FieldMatches(s, 1, key, anchored)
    IN  IF m = {} THEN <<>>
        ELSE LET g == FieldGroupStart(s, SetMin(m), key)
             IN  << strip(SubSeq(s, g, LineEnd(s, g))) >>

RECURSIVE finditer_field(_, _, _)
\* pattern.finditer(output) for KEY\s*(.+)$ from p on: the group(1).strip()
finditer_field(s, p, key) ==
    LET m == FieldMatches(s, p, key, FALSE)
    IN  IF m = {} THEN <<>>
        ELSE LET g == FieldGroupStart(s, SetMin(m), key)
                 e == LineEnd(s, g)
             IN  << strip(SubSeq(s, g, e)) >> \o finditer_field(s, e + 1, key)

\* the first position >= p that holds no whitespace (Len(s) + 1 if none)
SkipSpace(s, p) == SetMin({q \in p..(Len(s) + 1) :
                             /\ \A k \in p..(q - 1) : s[k] \in Whitespace
                             /\ q <= Len(s) => s[q] \notin Whitespace})

\* the last position of the run of non-whitespace that starts at p
RunEnd(s, p) == SetMax({e \in p..Len(s) : \A k \in p..e : s[k] \notin Whitespace})

\* the key phrases of PATTERNS
PATTERNS ==
    [lab_id |-> <<"Lab", SP, "ID", ":">>,
     participant |-> <<"Participant", ":">>,
     resource_group |-> <<"Resource", SP, "Group", ":">>,
     host_pool |-> <<"Host", SP, "Pool", ":">>,
     workspace |-> <<"Workspace", ":">>,
     workspace_url |-> <<"Workspace", SP, "URL", ":">>,
     expiry |-> <<"Expiry", ":">>,
     estimated_cost |-> <<"Estimated", SP, "cost", SP, "for", SP, "TTL", SP, "period", ":">>,
     destroy_cmd |-> <<"./avd-lab.sh", SP, "destroy", SP, "--lab-id">>,
     location |-> <<"Location", ":">>,
     time_remaining |-> <<"Time", SP, "remaining", ":">>,
     expired |-> <<"Lab", SP, "has", SP, "expired">>,
     logged_in_as |-> <<"Logged", SP, "in", SP, "as", ":">>,
     subscription |-> <<"Subscription", ":">>,
     provider_registered |-> <<"Provider", SP, "registered", ":">>,
     bicep_available |-> <<"Bicep", SP, "available", ":">>,
     quota_available |-> <<"Quota", SP, "available", ":">>,
     no_network_collision |-> <<"No", SP, "network", SP, "collisions", SP, "detected">>,
     vm_size |-> <<"VM", SP, "Size", ":">>,
     num_vms |-> <<"Number", SP, "of", SP, "VMs", ":">>,
     duration |-> <<"Duration", ":">>,
     total_cost |-> <<"Estimated", SP, "Total", SP, "Cost", ":">>]

\* atoms that [0-9.]+ matches, and atoms that \d+ matches with their int()
AmountAtoms == {"1.23", "4.56", "12"}
DigitValue == [a \in {"2", "12", "24"} |-> IF a = "2" THEN 2 ELSE IF a = "12" THEN 12 ELSE 24]
DigitAtoms == DOMAIN DigitValue

\* int(match.group(1))
int(a) == DigitValue[a]

\* KEY\s*\$([0-9.]+): the amounts of the matches, leftmost first
AmountMatches(s, key) ==
    {i \in 1..Len(s) :
        /\ KeyAt(s, i, key)
        /\ LET d == SkipSpace(s, i + Len(key))
           IN  d + 1 <= Len(s) /\ s[d] = "$" /\ s[d + 1] \in AmountAtoms}

AmountOf(s, i, key) == << s[SkipSpace(s, i + Len(key)) + 1] >>

\* PATTERNS['estimated_cost'].search(output): None, or group(1)
search_estimated_cost(s) ==
    LET m == AmountMatches(s, PATTERNS.estimated_cost)
    IN  IF m = {} THEN <<>> ELSE << AmountOf(s, SetMin(m), PATTERNS.estimated_cost) >>

\* PATTERNS['total_cost'].search(output), Estimated Total Cost:\s*\$([0-9.]+)\s*USD
search_total_cost(s) ==
    LET key == PATTERNS.total_cost
        m == {i \in AmountMatches(s, key) :
                LET u == SkipSpace(s, SkipSpace(s, i + Len(key)) + 2)
                IN  u <= Len(s) /\ s[u] = "USD"}
    IN  IF m = {} THEN <<>> ELSE << AmountOf(s, SetMin(m), key) >>

\* PATTERNS['destroy_cmd'].search(output),
\* \./avd-lab\.sh destroy --lab-id\s+(\S+)\s+--yes: None, or group(1)
search_destroy_cmd(s) ==
    LET key == PATTERNS.destroy_cmd
        GroupAt(i) == SkipSpace(s, i + Len(key))
        m == {i \in 1..Len(s) :
                /\ KeyAt(s, i, key)
                /\ GroupAt(i) > i + Len(key)
                /\ GroupAt(i) <= Len(s)
                /\ LET e == RunEnd(s, GroupAt(i))
                       y == SkipSpace(s, e + 1)
                   IN  y > e + 1 /\ y <= Len(s) /\ s[y] = "--yes"}
    IN  IF m = {} THEN <<>>
        ELSE LET g == GroupAt(SetMin(m)) IN << SubSeq(s, g, RunEnd(s, g)) >>

\* PATTERNS['quota_available'].search(output),
\* Quota available:\s*(\d+)\s*VMs of type\s+(\S+): None, or <<group(1), group(2)>>
search_quota_available(s) ==
    LET key == PATTERNS.quota_available
        mid == <<"VMs", SP, "of", SP, "type">>
        NumAt(i) == SkipSpace(s, i + Len(key))
        MidAt(i) == SkipSpace(s, NumAt(i) + 1)
        SizeAt(i) == SkipSpace(s, MidAt(i) + Len(mid))
        m == {i \in 1..Len(s) :
                /\ KeyAt(s, i, key)
                /\ NumAt(i) <= Len(s)
                /\ s[NumAt(i)] \in DigitAtoms
                /\ KeyAt(s, MidAt(i), mid)
                /\ SizeAt(i) > MidAt(i) + Len(mid)
                /\ SizeAt(i) <= Len(s)}
    IN  IF m = {} THEN <<>>
        ELSE LET i == SetMin(m)
             IN  << << <<s[NumAt(i)]>>, SubSeq(s, SizeAt(i), RunEnd(s, SizeAt(i))) >> >>

\* PATTERNS['subscription'].search(output),
\* Subscription:\s*(\S+)\s*\((.+)\)$: None, or <<group(1), group(2)>>.
\* (\S+) is greedy and gives back until \s*\( follows; the line that holds
\* "(" must end with ")".
search_subscription(s) ==
    LET key == PATTERNS.subscription
        IdAt(i) == SkipSpace(s, i + Len(key))
        \* the ends a of group(1) after which the rest of the pattern matches
        IdEnds(i) ==
            {a \in IdAt(i)..Len(s) :
                /\ \A k \in IdAt(i)..a : s[k] \notin Whitespace
                /\ LET p == SkipSpace(s, a + 1)
                   IN  /\ p <= Len(s)
                       /\ s[p] = "("
                       /\ LineEnd(s, p) >= p + 2
                       /\ s[LineEnd(s, p)] = ")"}
        m == {i \in 1..Len(s) : KeyAt(s, i, key) /\ IdAt(i) <= Len(s) /\ IdEnds(i) # {}}
    IN  IF m = {} THEN <<>>
        ELSE LET i == SetMin(m)
                 a == SetMax(IdEnds(i))
                 p == SkipSpace(s, a + 1)
             IN  << << SubSeq(s, IdAt(i), a), SubSeq(s, p + 1, LineEnd(s, p) - 1) >> >>

\* s.index(a) and s.rindex(a)
IndexOf(s, a) == SetMin({i \in 1..Len(s) : s[i] = a})
LastIndexOf(s, a) == SetMax({i \in 1..Len(s) : s[i] = a})

RECURSIVE split(_, _)
\* s.split(sep), sep one character
split(s, sep) ==
    IF ~Contains(s, sep) THEN <<s>>
    ELSE <<SubSeq(s, 1, IndexOf(s, sep) - 1)>>
             \o split(SubSeq(s, IndexOf(s, sep) + 1, Len(s)), sep)

\* s.split(':', 1)[0], s.split(':', 1)[1], and the halves of s.rsplit(':', 1)
BeforeFirst(s, a) == SubSeq(s, 1, IndexOf(s, a) - 1)
AfterFirst(s, a) == SubSeq(s, IndexOf(s, a) + 1, Len(s))
BeforeLast(s, a) == SubSeq(s, 1, LastIndexOf(s, a) - 1)
AfterLast(s, a) == SubSeq(s, LastIndexOf(s, a) + 1, Len(s))

\* s.startswith(prefix), s.removeprefix(prefix)
startswith(s, prefix) == KeyAt(s, 1, prefix)
removeprefix(s, prefix) ==
    IF startswith(s, prefix) THEN SubSeq(s, Len(prefix) + 1, Len(s)) ELSE s

\* one repetition of (?:  .+\n?) matches at p: two spaces and a further character
IndentedAt(s, p) == p + 2 <= Len(s) /\ s[p] = SP /\ s[p + 1] = SP /\ s[p + 2] # NL

RECURSIVE SectionEnd(_, _)
\* the last position of ((?:  .+\n?)+) when its first repetition starts at p
SectionEnd(s, p) ==
    LET e == LineEnd(s, p + 2)
    IN  IF e = Len(s) THEN e
        ELSE IF IndentedAt(s, e + 2) THEN SectionEnd(s, e + 2)
        ELSE e + 1

\* re.search(HEADER\n((?:  .+\n?)+), output) for the headers given (all of
\* one length): None, or group(1)
search_section(s, headers) ==
    LET n == Len(CHOOSE h \in headers : TRUE)
        m == {i \in 1..Len(s) : /\ \E h \in headers : KeyAt(s, i, h \o <<NL>>)
                                /\ IndentedAt(s, i + n + 1)}
    IN  IF m = {} THEN <<>>
        ELSE LET p == SetMin(m) + n + 1 IN << SubSeq(s, p, SectionEnd(s, p)) >>

\* the lines the loops over a section run through: group(1).strip().split('\n')
section_lines(sec) == IF sec = <<>> THEN <<>> ELSE split(strip(sec[1]), NL)

\* a dict, as the sequence of its items in insertion order
dict_has(d, k) == \E i \in 1..Len(d) : d[i][1] = k
dict_get(d, k) == d[CHOOSE i \in 1..Len(d) : d[i][1] = k][2]
dict_set(d, k, v) ==
    IF dict_has(d, k)
    THEN [i \in 1..Len(d) |-> IF d[i][1] = k THEN <<k, v>> ELSE d[i]]
    ELSE Append(d, <<k, v>>)

RECURSIVE providers_of(_, _)
\* for match in finditer: result.providers[provider] = True
providers_of(names, d) ==
    IF names = <<>> THEN d
    ELSE providers_of(Tail(names), dict_set(d, names[1], TRUE))

RECURSIVE tags_of(_, _)
\* the loop over the "Tags:" section
tags_of(lines, d) ==
    IF lines = <<>> THEN d
    ELSE LET line == lines[1]
         IN  IF Contains(line, ":")
             THEN tags_of(Tail(lines),
                          dict_set(d, strip(BeforeFirst(strip(line), ":")),
                                      strip(AfterFirst(strip(line), ":"))))
             ELSE tags_of(Tail(lines), d)

RECURSIVE host_pools_of(_, _, _)
\* the loop over the "Host Pools:" section; its final "if current_hp: append"
host_pools_of(lines, current_hp, pools) ==
    IF lines = <<>>
    THEN IF current_hp # <<>> THEN Append(pools, current_hp) ELSE pools
    ELSE LET line == strip(lines[1])
             value == strip(AfterFirst(line, ":"))
         IN  IF startswith(line, <<"Name", ":">>)
             THEN host_pools_of(Tail(lines), << <<"name", value>> >>,
                                IF current_hp # <<>> THEN Append(pools, current_hp) ELSE pools)
             ELSE IF startswith(line, <<"Type", ":">>)
             THEN host_pools_of(Tail(lines), dict_set(current_hp, "type", value), pools)
             ELSE IF startswith(line, <<"Max", SP, "Sessions", ":">>)
             THEN host_pools_of(Tail(lines), dict_set(current_hp, "max_sessions", value), pools)
             ELSE host_pools_of(Tail(lines), current_hp, pools)

RECURSIVE name_status_of(_)
\* the loops over "Session Hosts:" and "Virtual Machines:": rsplit(':', 1)
name_status_of(lines) ==
    IF lines = <<>> THEN <<>>
    ELSE LET line == strip(lines[1])
         IN  IF Contains(line, ":")
             THEN << [name |-> strip(BeforeLast(line, ":")),
                      status |-> strip(AfterLast(line, ":"))] >> \o name_status_of(Tail(lines))
             ELSE name_status_of(Tail(lines))

RECURSIVE dash_items_of(_)
\* the loops over "Resources to be deleted:" and "Found N orphaned resources:"
dash_items_of(lines) ==
    IF lines = <<>> THEN <<>>
    ELSE LET line == strip(lines[1])
         IN  IF startswith(line, <<"-", SP>>)
             THEN << strip(removeprefix(line, <<"-", SP>>)) >> \o dash_items_of(Tail(lines))
             ELSE dash_items_of(Tail(lines))

\* the terminal lines the parse functions test with "in output"
CreatedMarker == Words(<<"AVD", "Lab", "created", "successfully">>)
DestroyedMarker == Words(<<"AVD", "Lab", "destroyed", "successfully">>)
ValidatedMarkers == { Words(<<"All", "prerequisites", "validated">>),
                      Words(<<"Validation", "completed", "successfully">>) }

\* Optional[str] of a search: None, or the text f"{prefix}{group}{suffix}"
Formatted(prefix, opt, suffix) ==
    IF opt = <<>> THEN <<>> ELSE << prefix \o opt[1] \o suffix >>

\* PATTERNS['num_vms'] and PATTERNS['duration'], ^KEY\s*(\d+)$ and
\* ^KEY\s*(\d+)\s*hours$: None, or int(group(1)).  The $ after the unit, or
\* after the digits, is the end of the text or the place before a line break.
search_int(s, key, unit) ==
    LET NumAt(i) == SkipSpace(s, i + Len(key))
        UnitAt(i) == IF unit = <<>> THEN NumAt(i) + 1 ELSE SkipSpace(s, NumAt(i) + 1)
        m == {i \in 1..Len(s) :
                /\ KeyAt(s, i, key)
                /\ LineStart(s, i)
                /\ NumAt(i) <= Len(s)
                /\ s[NumAt(i)] \in DigitAtoms
                /\ unit # <<>> => KeyAt(s, UnitAt(i), unit)
                /\ LET e == UnitAt(i) + Len(unit) IN e = Len(s) + 1 \/ s[e] = NL}
    IN  IF m = {} THEN <<>> ELSE << int(s[NumAt(SetMin(m))]) >>

\* OutputParser.parse_validation
parse_validation(output) ==
    LET logged == search_field(output, PATTERNS.logged_in_as, FALSE)
        sub == search_subscription(output)
        quota == search_quota_available(output)
    IN  [azure_cli |-> HasSubSeq(output, Words(<<"Azure", "CLI", "found">>))
                          \/ HasSubSeq(output, Words(<<"Azure", "CLI">>)),
         logged_in |-> logged # <<>>,
         user_name |-> logged,
         subscription_id |-> IF sub = <<>> THEN <<>> ELSE << strip(sub[1][1]) >>,
         subscription_name |-> IF sub = <<>> THEN <<>> ELSE << strip(sub[1][2]) >>,
         providers |-> providers_of(finditer_field(output, 1, PATTERNS.provider_registered), <<>>),
         bicep_version |-> search_field(output, PATTERNS.bicep_available, FALSE),
         quota_available |-> quota # <<>>,
         quota_details |-> IF quota = <<>> THEN <<>>
                           ELSE << quota[1][1] \o <<SP, "VMs", SP, "of", SP>> \o quota[1][2] >>,
         network_ok |-> HasSubSeq(output, PATTERNS.no_network_collision),
         network_details |-> <<>>,
         success |-> \E m \in ValidatedMarkers : HasSubSeq(output, m),
         errors |-> error_groups(output, 1),
         warnings |-> warning_groups(output, 1)]

\* OutputParser.parse_create
parse_create(output) ==
    [lab_id |-> search_field(output, PATTERNS.lab_id, TRUE),
     participant |-> search_field(output, PATTERNS.participant, TRUE),
     resource_group |-> search_field(output, PATTERNS.resource_group, TRUE),
     host_pool |-> search_field(output, PATTERNS.host_pool, TRUE),
     workspace |-> search_field(output, PATTERNS.workspace, TRUE),
     workspace_url |-> search_field(output, PATTERNS.workspace_url, TRUE),
     expiry |-> search_field(output, PATTERNS.expiry, TRUE),
     estimated_cost |-> Formatted(<<"$">>, search_estimated_cost(output), <<>>),
     destroy_command |-> Formatted(<<"./avd-lab.sh", SP, "destroy", SP, "--lab-id", SP>>,
                                   search_destroy_cmd(output), <<SP, "--yes">>),
     success |-> HasSubSeq(output, CreatedMarker),
     errors |-> error_groups(output, 1)]

\* OutputParser.parse_status
parse_status(output) ==
    LET lab_id == search_field(output, PATTERNS.lab_id, TRUE)
        resource_group == search_field(output, PATTERNS.resource_group, TRUE)
        tags == tags_of(section_lines(search_section(output, { <<"Tags", ":">> })), <<>>)
    IN  [lab_id |-> lab_id,
         resource_group |-> resource_group,
         location |-> search_field(output, PATTERNS.location, TRUE),
         participant |-> IF dict_has(tags, <<"participant">>)
                         THEN << dict_get(tags, <<"participant">>) >> ELSE <<>>,
         expiry |-> search_field(output, PATTERNS.expiry, TRUE),
         time_remaining |-> search_field(output, PATTERNS.time_remaining, FALSE),
         expired |-> HasSubSeq(output, PATTERNS.expired),
         host_pools |-> host_pools_of(
             section_lines(search_section(output, { <<"Host", SP, "Pools", ":">> })), <<>>, <<>>),
         session_hosts |-> name_status_of(
             section_lines(search_section(output, { <<"Session", SP, "Hosts", ":">> }))),
         vms |-> name_status_of(
             section_lines(search_section(output, { <<"Virtual", SP, "Machines", ":">> }))),
         tags |-> tags,
         success |-> Truthy(lab_id) \/ Truthy(resource_group),
         errors |-> error_groups(output, 1)]

\* OutputParser.parse_destroy
parse_destroy(output) ==
    [lab_id |-> search_field(output, PATTERNS.lab_id, TRUE),
     resource_group |-> search_field(output, PATTERNS.resource_group, TRUE),
     resources_deleted |-> dash_items_of(section_lines(search_section(output,
         { <<"Resources", SP, "to", SP, "be", SP, "deleted", ":">> }))),
     orphaned_resources |-> dash_items_of(section_lines(search_section(output,
         { <<"Found", SP, d, SP, "orphaned", SP, "resources", ":">> : d \in DigitAtoms }))),
     success |-> HasSubSeq(output, DestroyedMarker),
     errors |-> error_groups(output, 1)]

parse_cost_estimate_at_clock(output) ==
    LET total_cost == Formatted(<<"$">>, search_total_cost(output), <<SP, "USD">>)
    IN  [vm_size |-> search_field(output, PATTERNS.vm_size, TRUE),
         vm_count |-> search_int(output, PATTERNS.num_vms, <<>>),
         hours |-> <<now>>,
         total_cost |-> total_cost,
         success |-> Truthy(total_cost),
         errors |-> error_groups(output, 1)]

\* OutputParser.parse_cost_estimate
parse_cost_estimate(output) ==
    LET total_cost == Formatted(<<"$">>, search_total_cost(output), <<SP, "USD">>)
    IN  [vm_size |-> search_field(output, PATTERNS.vm_size, TRUE),
         vm_count |-> search_int(output, PATTERNS.num_vms, <<>>),
         hours |-> search_int(output, PATTERNS.duration, <<"hours">>),
         total_cost |-> total_cost,
         success |-> Truthy(total_cost),
         errors |-> error_groups(output, 1)]


(***************************************************************************)
(* app.py: the dashboard's dispatch of jobs.  Each dispatch registers a    *)
(* Job and creates an asyncio task; the tasks interleave at their awaits.  *)
(* A task is                                                               *)
(*   type, job_id   the job it was created for                             *)
(*   pc             "created", "in_cli" (awaiting the wrapper),            *)
(*                  "refreshing" (awaiting _refresh_labs), "done",         *)
(*                  "raised" (the task ended with an exception)            *)
(*   run            the run_command invocation of its wrapper call         *)
(*   start          start_time of the task body                            *)
(***************************************************************************)
SecondsPerDay == 86400

\* datetime.now().strftime('%H%M%S'): the time of day, to the second
strftime_HMS(t) == t % SecondsPerDay

\* f"create-{participant}-{HHMMSS}", f"destroy-{lab_id}-{HHMMSS}",
\* f"validate-{HHMMSS}", f"refresh-{HHMMSS}"
job_id(type, target, t) == <<type, target, strftime_HMS(t)>>

DashParticipants == { <<"alice">> }
DashLabIds == { <<"azure-test-1">> }
DashConfigPaths == { <<"/", "lab-dev.json">>, <<"/", "missing.json">> }

DashRawLines ==
    [destroy |-> [stdout |-> { DestroyedMarker \o <<NL>>, <<"[ERROR]", SP, "boom", NL>> },
                  stderr |-> { <<"warn", NL>> }],
     validate |-> [stdout |-> { Words(<<"All", "prerequisites", "validated">>) \o <<NL>>,
                                <<"[ERROR]", SP, "boom", NL>> },
                   stderr |-> { <<"warn", NL>> }]]

DashExitCodes == {SUCCESS, AZURE_ERROR}

Task(type, id) == [type |-> type, job_id |-> id, pc |-> "created", run |-> NoRun, start |-> 0]

InitDashboard ==
    /\ jobs = <<>>
    /\ ret = <<>>
    /\ nAdded = 0
    /\ lastStep = NoStep
    /\ now = 0
    /\ tasks = <<>>
    /\ call = NoCall
    /\ run = NoRun
    /\ delivered = <<>>
    /\ spawned = 0
    /\ text = <<>>
    /\ outcome = <<>>
    /\ listing = <<>>
    /\ labs = <<>>
    /\ output_display = <<>>
    /\ InitState

DashUnchanged == UNCHANGED <<execVars, parserVars, refreshVars, stateVars, child>>

\* the clock advances by a second
Tick ==
    /\ now < MaxClock
    /\ now' = now + 1
    /\ UNCHANGED <<jobs, ret, nAdded, lastStep, tasks>>
    /\ DashUnchanged

\* the part the four dispatchers share: Job(...), add_job, create_task
Dispatch(type, target) ==
    LET id == job_id(type, target, now)
    IN  /\ Len(tasks) < MaxTasks
        /\ jobs' = add_job(jobs, Job(id, type, target, "running", now))
        /\ nAdded' = nAdded + 1
        /\ tasks' = Append(tasks, Task(type, id))
        /\ UNCHANGED <<ret, lastStep, now>>
        /\ DashUnchanged

\* Dashboard._do_create
DoCreate == \E participant \in DashParticipants : Dispatch("create", participant)

\* Dashboard._do_destroy
DoDestroy == \E lab_id \in DashLabIds : Dispatch("destroy", lab_id)

\* Dashboard.action_validate
ActionValidate == Dispatch("validate", <<"config">>)

\* Dashboard.action_refresh
ActionRefresh == Dispatch("refresh", <<"all">>)

\* the locals of a coroutine that has returned are gone, unless a reader of
\* its run_command is still running
Settled(t) ==
    IF t.pc \in {"done", "refreshing"} /\ t.run.pc = "returned"
       /\ \A st \in Streams : t.run.rd[st] # "reading"
    THEN [t EXCEPT !.run = NoRun]
    ELSE t

\* task i calls update_job(job_id, **kwargs) and drops what it returns
CallUpdateJob(i, kwargs, newTask) ==
    /\ jobs' = update_job(jobs, tasks[i].job_id, kwargs).jobs
    /\ tasks' = [tasks EXCEPT ![i] = Settled(newTask)]
    /\ UNCHANGED <<ret, nAdded, lastStep, now>>
    /\ DashUnchanged

\* a step of task i that touches no job
TaskOnly(i, newTask) ==
    /\ tasks' = [tasks EXCEPT ![i] = Settled(newTask)]
    /\ UNCHANGED <<jobs, ret, nAdded, lastStep, now>>
    /\ DashUnchanged

\* run_create: self._cli.create(..., student_ids=student_ids, ...) names a
\* parameter CliRunner.create does not have: the call raises TypeError and the
\* task ends there
RunCreateStart ==
    \E i \in 1..Len(tasks) :
        /\ tasks[i].type = "create"
        /\ tasks[i].pc = "created"
        /\ TaskOnly(i, [tasks[i] EXCEPT !.pc = "raised", !.start = now])

\* the wrapper's result as the completion step reads it
ResultText(result) == result.stdout \o <<NL>> \o result.stderr

\* duration_str = str(end_time - start_time).split('.')[0]
Duration(t) == <<now - t.start>>

\* run_destroy after the wrapper returned: parse, update the job
DestroyCompletion(i, t, result) ==
    LET parsed == parse_destroy(ResultText(result))
    IN  IF parsed.success
        THEN CallUpdateJob(i, [status |-> "succeeded", duration |-> Duration(t)],
                           [t EXCEPT !.pc = "refreshing"])
        ELSE CallUpdateJob(i, [status |-> "failed", duration |-> Duration(t),
                               errors |-> IF parsed.errors # <<>> THEN parsed.errors
                                          ELSE <<result.stderr>>],
                           [t EXCEPT !.pc = "done"])

\* run_validate after the wrapper returned: parse, update the job
ValidateCompletion(i, t, result) ==
    LET parsed == parse_validation(ResultText(result))
    IN  IF parsed.success
        THEN CallUpdateJob(i, [status |-> "succeeded", duration |-> Duration(t)],
                           [t EXCEPT !.pc = "done"])
        ELSE CallUpdateJob(i, [status |-> "failed", duration |-> Duration(t),
                               errors |-> parsed.errors],
                           [t EXCEPT !.pc = "done"])

\* run_destroy up to its first await: destroy(lab_id=lab_id, on_output=log_callback)
RunDestroyStart ==
    \E i \in 1..Len(tasks) :
        /\ tasks[i].type = "destroy"
        /\ tasks[i].pc = "created"
        /\ LET w == destroy(<<tasks[i].job_id[2]>>, <<>>)
               t == [tasks[i] EXCEPT !.start = now]
           IN  IF w.kind = "result"
               THEN DestroyCompletion(i, t, w.result)
               ELSE TaskOnly(i, [t EXCEPT !.pc = "in_cli",
                                          !.run = run_command_begin(w.command, w.args, TRUE)])

\* run_validate up to its first await: validate(config_path), no callback
RunValidateStart ==
    \E i \in 1..Len(tasks), config_path \in DashConfigPaths :
        /\ tasks[i].type = "validate"
        /\ tasks[i].pc = "created"
        /\ LET w == validate(config_path)
               t == [tasks[i] EXCEPT !.start = now]
           IN  IF w.kind = "result"
               THEN ValidateCompletion(i, t, w.result)
               ELSE TaskOnly(i, [t EXCEPT !.pc = "in_cli",
                                          !.run = run_command_begin(w.command, w.args, FALSE)])

\* do_refresh up to its await of _refresh_labs
DoRefreshStart ==
    \E i \in 1..Len(tasks) :
        /\ tasks[i].type = "refresh"
        /\ tasks[i].pc = "created"
        /\ TaskOnly(i, [tasks[i] EXCEPT !.pc = "refreshing", !.start = now])

TaskSpawnFails ==
    \E i \in 1..Len(tasks), e \in SpawnErrors :
        /\ tasks[i].run.pc = "spawning"
        /\ TaskOnly(i, [tasks[i] EXCEPT !.run = spawn_failed(@, e)])

TaskSpawnOk ==
    \E i \in 1..Len(tasks) :
        /\ tasks[i].run.pc = "spawning"
        /\ TaskOnly(i, [tasks[i] EXCEPT !.run = spawn_ok(@)])

RECURSIVE SumLines(_)
SumLines(ts) ==
    IF ts = <<>> THEN 0
    ELSE (IF ts[1].run.pc = "none" THEN 0
          ELSE Len(ts[1].run.written["stdout"]) + Len(ts[1].run.written["stderr"]))
         + SumLines(Tail(ts))

\* a reader of task i gets a line: append it, then log_callback(line) if the
\* wrapper was given one: update_job(job_id, last_log=line)
TaskReadLine ==
    \E i \in 1..Len(tasks) :
        /\ tasks[i].run.pc \in {"draining", "returned"}
        /\ SumLines(tasks) < DashMaxLines
        /\ \E st \in Streams :
            /\ tasks[i].run.rd[st] = "reading"
            /\ \E raw \in DashRawLines[tasks[i].type][st] :
                LET t == [tasks[i] EXCEPT !.run = read_line(@, st, raw)]
                IN  IF tasks[i].run.callback
                    THEN CallUpdateJob(i, [last_log |-> decoded(raw)], t)
                    ELSE TaskOnly(i, t)

TaskReadEof ==
    \E i \in 1..Len(tasks), st \in Streams :
        /\ tasks[i].run.pc \in {"draining", "returned"}
        /\ tasks[i].run.rd[st] = "reading"
        /\ TaskOnly(i, [tasks[i] EXCEPT !.run = read_eof(@, st)])

TaskReadRaises ==
    \E i \in 1..Len(tasks), st \in Streams, e \in ReadErrors :
        /\ tasks[i].run.pc \in {"draining", "returned"}
        /\ tasks[i].run.rd[st] = "reading"
        /\ TaskOnly(i, [tasks[i] EXCEPT !.run = read_raised(@, st, e)])

TaskProcessWait ==
    \E i \in 1..Len(tasks), code \in DashExitCodes :
        /\ tasks[i].run.pc = "draining"
        /\ Drained(tasks[i].run)
        /\ TaskOnly(i, [tasks[i] EXCEPT !.run = process_wait(@, code)])

\* the wrapper returned to run_destroy or run_validate
TaskComplete ==
    \E i \in 1..Len(tasks) :
        /\ tasks[i].pc = "in_cli"
        /\ tasks[i].run.pc = "returned"
        /\ IF tasks[i].type = "destroy"
           THEN DestroyCompletion(i, tasks[i], tasks[i].run.result[1])
           ELSE ValidateCompletion(i, tasks[i], tasks[i].run.result[1])

\* _refresh_labs returned: do_refresh marks its job succeeded; run_destroy only
\* redraws the jobs panel
TaskRefreshed ==
    \E i \in 1..Len(tasks) :
        /\ tasks[i].pc = "refreshing"
        /\ IF tasks[i].type = "refresh"
           THEN CallUpdateJob(i, [status |-> "succeeded", duration |-> Duration(tasks[i])],
                              [tasks[i] EXCEPT !.pc = "done"])
           ELSE TaskOnly(i, [tasks[i] EXCEPT !.pc = "done"])

Next ==
    \/ Tick
    \/ DoCreate
    \/ DoDestroy
    \/ ActionValidate
    \/ ActionRefresh
    \/ RunCreateStart
    \/ RunDestroyStart
    \/ RunValidateStart
    \/ DoRefreshStart
    \/ TaskSpawnFails
    \/ TaskSpawnOk
    \/ TaskReadLine
    \/ TaskReadEof
    \/ TaskReadRaises
    \/ TaskProcessWait
    \/ TaskComplete
    \/ TaskRefreshed

Spec == InitDashboard /\ [][Next]_vars


\* the record of the j-th job that was added (no dashboard run adds more than
\* MAX_JOBS jobs, so none is evicted)
JobOf(js, j) == js[Len(js) - j + 1]

\* C1: a job's status changes only along queued -> running -> {succeeded,
\* failed, cancelled}: no step moves it backward and no step changes the status
\* of a job that is already succeeded, failed or cancelled.
C1_StatusOnlyForward ==
    [][\A j \in 1..Len(jobs) :
          LET old == JobOf(jobs, j).status
              new == JobOf(jobs', j).status
          IN  old # new =>
                \/ old = "queued" /\ new = "running"
                \/ old = "running" /\ new \in TerminalStatuses]_vars

\* C4: a step of one job's task (its log callback, its completion) changes no
\* other job's status, duration, last_log or errors.
C4_TaskTouchesOnlyItsJob ==
    [][\A i \in 1..Len(tasks) :
          (Len(tasks') = Len(tasks) /\ tasks'[i] # tasks[i]) =>
              \A j \in 1..Len(jobs) :
                  j # i =>
                      /\ JobOf(jobs', j).status = JobOf(jobs, j).status
                      /\ JobOf(jobs', j).duration = JobOf(jobs, j).duration
                      /\ JobOf(jobs', j).last_log = JobOf(jobs, j).last_log
                      /\ JobOf(jobs', j).errors = JobOf(jobs, j).errors]_vars

\* C5: the ids of the jobs in the registry are pairwise distinct.
C5_JobIdsDistinct ==
    \A i, k \in 1..Len(jobs) : i # k => jobs[i].id # jobs[k].id

(***************************************************************************)
(* The parse functions applied to captured output: a text of up to         *)
(* MaxTextLines lines, each a line the provisioning script can print.      *)
(***************************************************************************)
ParserLines ==
    { PATTERNS.lab_id \o <<SP, "lab1">>,
      PATTERNS.lab_id,
      PATTERNS.participant \o <<SP, "p1">>,
      PATTERNS.resource_group \o <<SP, "rg1">>,
      PATTERNS.estimated_cost \o <<SP, "$", "1.23">>,
      PATTERNS.total_cost \o <<SP, "$", "4.56", SP, "USD">>,
      <<"[ERROR]", SP, "boom">>,
      <<"[ERROR]", SP, "bang">>,
      <<"[ERROR]">>,
      <<"[WARN]", SP, "careful">>,
      CreatedMarker,
      DestroyedMarker,
      Words(<<"All", "prerequisites", "validated">>),
      <<"Deploying">> }

\* the texts of at most n lines
ParserTexts(n) ==
    UNION { { JoinWith(<<NL>>, ls) : ls \in [1..k -> ParserLines] } : k \in 0..n }

ParseFunctions ==
    {"parse_validation", "parse_create", "parse_status", "parse_destroy", "parse_cost_estimate"}

\* a call that returned value
Returned(fn, value) == [fn |-> fn, raised |-> FALSE, value |-> value]
\* a call that ended with an exception
Raised(fn, exception) == [fn |-> fn, raised |-> TRUE, value |-> exception]

InitParser ==
    /\ text \in ParserTexts(MaxTextLines)
    /\ outcome = <<>>
    /\ listing = <<>>
    /\ labs = <<>>
    /\ output_display = <<>>
    /\ jobs = <<>>
    /\ ret = <<>>
    /\ nAdded = 0
    /\ lastStep = NoStep
    /\ now = 0
    /\ tasks = <<>>
    /\ call = NoCall
    /\ run = NoRun
    /\ delivered = <<>>
    /\ spawned = 0
    /\ InitState

ParserUnchanged ==
    UNCHANGED <<text, registryVars, lastStep, dashboardVars, execVars, refreshVars, stateVars, child>>

ParseValidation ==
    /\ outcome = <<>>
    /\ outcome' = Returned("parse_validation", parse_validation(text))
    /\ ParserUnchanged

ParseCreate ==
    /\ outcome = <<>>
    /\ outcome' = Returned("parse_create", parse_create(text))
    /\ ParserUnchanged

ParseStatus ==
    /\ outcome = <<>>
    /\ outcome' = Returned("parse_status", parse_status(text))
    /\ ParserUnchanged

ParseDestroy ==
    /\ outcome = <<>>
    /\ outcome' = Returned("parse_destroy", parse_destroy(text))
    /\ ParserUnchanged

ParseCostEstimate ==
    /\ outcome = <<>>
    /\ outcome' = Returned("parse_cost_estimate", parse_cost_estimate(text))
    /\ ParserUnchanged

NextParser ==
    ParseValidation \/ ParseCreate \/ ParseStatus \/ ParseDestroy \/ ParseCostEstimate

SpecParser == InitParser /\ [][NextParser]_vars

\* a parse function has returned
Parsed == outcome # <<>> /\ outcome.fn \in ParseFunctions

\* the terminal success lines a parse function tests for
SuccessMarkers(fn) ==
    CASE fn = "parse_validation" -> ValidatedMarkers
      [] fn = "parse_create" -> {CreatedMarker}
      [] fn = "parse_destroy" -> {DestroyedMarker}
      [] OTHER -> {}

\* C11: every parse function reports success only if the verb's terminal
\* success marker occurs in the text; fields that were extracted never make a
\* result successful.
C11_SuccessOnlyWithMarker ==
    Parsed => (outcome.value.success =>
                   \E m \in SuccessMarkers(outcome.fn) : HasSubSeq(text, m))

\* the lines of the text that hold "[ERROR]" (or "[WARN]"), in source order
LinesWith(s, tag) == SelectSeq(split(s, NL), LAMBDA line : Contains(line, tag))

\* C13: errors holds one entry for every [ERROR] line of the text, in source
\* order, each the message that follows "[ERROR]" on its line, and the
\* warnings of parse_validation likewise for the [WARN] lines.
C13_OneEntryPerErrorLine ==
    Parsed =>
        /\ LET ls == LinesWith(text, "[ERROR]")
           IN  /\ Len(outcome.value.errors) = Len(ls)
               /\ \A k \in 1..Len(ls) :
                      outcome.value.errors[k] = strip(AfterFirst(ls[k], "[ERROR]"))
        /\ outcome.fn = "parse_validation" =>
               LET ws == LinesWith(text, "[WARN]")
               IN  /\ Len(outcome.value.warnings) = Len(ws)
                   /\ \A k \in 1..Len(ws) :
                          outcome.value.warnings[k] = strip(AfterFirst(ws[k], "[WARN]"))

\* the texts that follow the key phrase on the lines that start with it
RestsOfLines(s, key) ==
    { strip(SubSeq(line, Len(key) + 1, Len(line))) :
          line \in { l \in Range(split(s, NL)) : startswith(l, key) } }

\* C14: the value of a field is the text that follows the field's key phrase
\* on a line of its own, whatever the other lines are; a field without a line
\* is absent.
C14_FieldFromItsOwnLine ==
    Parsed /\ outcome.fn = "parse_create" =>
        \A f \in {"lab_id", "participant", "resource_group"} :
            /\ RestsOfLines(text, PATTERNS[f]) = {} => outcome.value[f] = <<>>
            /\ outcome.value[f] # <<>> => outcome.value[f][1] \in RestsOfLines(text, PATTERNS[f])

(***************************************************************************)
(* json.JSONDecoder, as the extractor and extract_lab_list use it.  A JSON *)
(* text is a sequence of atoms: the structural characters, the quote Q,    *)
(* whitespace, the literals, numbers, and chunks of other characters.  A   *)
(* decoded value is [t |-> its kind, v |-> its content]: the characters of *)
(* a string, the items of a list, the (key, value) items of a dict in      *)
(* insertion order.                                                        *)
(***************************************************************************)
Q == "\""

NumberAtoms == {"0", "5"}
LiteralAtoms == {"null", "true", "false"}

\* characters a JSON string cannot hold unescaped (strict mode)
ControlChars == {NL, "\t", "\r"}

\* the nesting of objects and arrays the decoder follows before the
\* interpreter's recursion limit stops it (about 1000 in CPython, scaled)
MaxNesting == 3

\* raise JSONDecodeError, raise RecursionError, and a decoded value with the
\* position after it
JsonFail == [ok |-> FALSE, exception |-> "JSONDecodeError"]
JsonRecursion == [ok |-> FALSE, exception |-> "RecursionError"]
JsonOk(end, value) == [ok |-> TRUE, end |-> end, value |-> value]

py_str(chars) == [t |-> "str", v |-> chars]
py_dict(items) == [t |-> "dict", v |-> items]
py_list(items) == [t |-> "list", v |-> items]
py_none == [t |-> "None", v |-> "null"]

\* json.decoder.scanstring from the opening quote at i: the characters up to
\* the next quote, none of them a control character
scanstring(s, i) ==
    LET closing == {j \in (i + 1)..Len(s) : s[j] = Q}
    IN  IF closing = {} THEN JsonFail
        ELSE LET j == SetMin(closing)
             IN  IF \E k \in (i + 1)..(j - 1) : s[k] \in ControlChars THEN JsonFail
                 ELSE JsonOk(j + 1, py_str(SubSeq(s, i + 1, j - 1)))

RECURSIVE scan_once(_, _, _)
RECURSIVE JSONObject(_, _, _, _)
RECURSIVE JSONArray(_, _, _, _)

\* the members of an object from the quote of a key at p on, items the
\* dict built so far, depth the objects and arrays open around the members
JSONObject(s, p, items, depth) ==
    LET key == scanstring(s, p)
    IN  IF ~key.ok THEN JsonFail
        ELSE LET c == SkipSpace(s, key.end)
             IN  IF c > Len(s) \/ s[c] # ":" THEN JsonFail
                 ELSE LET value == scan_once(s, SkipSpace(s, c + 1), depth)
                      IN  IF ~value.ok THEN value
                          ELSE LET d == dict_set(items, key.value.v, value.value)
                                   n == SkipSpace(s, value.end)
                               IN  IF n > Len(s) THEN JsonFail
                                   ELSE IF s[n] = "}" THEN JsonOk(n + 1, py_dict(d))
                                   ELSE IF s[n] # "," THEN JsonFail
                                   ELSE LET k == SkipSpace(s, n + 1)
                                        IN  IF k > Len(s) \/ s[k] # Q THEN JsonFail
                                            ELSE JSONObject(s, k, d, depth)

\* the items of an array from the value at p on
JSONArray(s, p, items, depth) ==
    LET value == scan_once(s, p, depth)
    IN  IF ~value.ok THEN value
        ELSE LET n == SkipSpace(s, value.end)
                 l == Append(items, value.value)
             IN  IF n > Len(s) THEN JsonFail
                 ELSE IF s[n] = "]" THEN JsonOk(n + 1, py_list(l))
                 ELSE IF s[n] # "," THEN JsonFail
                 ELSE JSONArray(s, SkipSpace(s, n + 1), l, depth)

\* json.scanner's scan_once: one value that starts at i, inside depth open
\* objects and arrays; entering one more than the limit allows raises
scan_once(s, i, depth) ==
    IF i > Len(s) THEN JsonFail
    ELSE IF s[i] = Q THEN scanstring(s, i)
    ELSE IF s[i] \in {"{", "["} /\ depth >= MaxNesting THEN JsonRecursion
    ELSE IF s[i] = "{"
    THEN LET p == SkipSpace(s, i + 1)
         IN  IF p > Len(s) THEN JsonFail
             ELSE IF s[p] = "}" THEN JsonOk(p + 1, py_dict(<<>>))
             ELSE IF s[p] # Q THEN JsonFail
             ELSE JSONObject(s, p, <<>>, depth + 1)
    ELSE IF s[i] = "["
    THEN LET p == SkipSpace(s, i + 1)
         IN  IF p > Len(s) THEN JsonFail
             ELSE IF s[p] = "]" THEN JsonOk(p + 1, py_list(<<>>))
             ELSE JSONArray(s, p, <<>>, depth + 1)
    ELSE IF s[i] \in LiteralAtoms
    THEN JsonOk(i + 1, IF s[i] = "null" THEN py_none ELSE [t |-> "bool", v |-> s[i]])
    ELSE IF s[i] \in NumberAtoms THEN JsonOk(i + 1, [t |-> "int", v |-> s[i]])
    ELSE JsonFail

\* json.JSONDecoder().raw_decode(text[start:]): the value and the position
\* after it, or the exception raised
raw_decode(s, start) == scan_once(s, start, 0)

\* json.loads(s): the value when nothing but whitespace surrounds it
loads(s) ==
    LET r == scan_once(s, SkipSpace(s, 1), 0)
    IN  IF ~r.ok THEN r
        ELSE IF SkipSpace(s, r.end) = Len(s) + 1 THEN r ELSE JsonFail

(***************************************************************************)
(* The JSON-candidate extractor and the choice among its candidates        *)
(* (widgets/student_manager.py, StudentManager._on_invite; the extraction  *)
(* loop is also tests/test_parsing_repro.py, extract_json_candidates).     *)
(* Positions are 1-based: idx here is the code's idx + 1.                  *)
(***************************************************************************)
\* text.find('{', idx): the position found, or 0 for -1
find_brace(s, idx) ==
    LET at == {i \in idx..Len(s) : s[i] = "{"}
    IN  IF at = {} THEN 0 ELSE SetMin(at)

\* one pass through the body of "while idx < len(text)": the loop is left
\* (done), or goes on from idx, or an exception other than JSONDecodeError
\* leaves the handler (raised)
scan_step(s, idx, candidates) ==
    LET start_idx == find_brace(s, idx)
        stay == [done |-> TRUE, raised |-> <<>>, idx |-> idx, candidates |-> candidates]
    IN  IF idx > Len(s) \/ start_idx = 0 THEN stay
        ELSE LET r == raw_decode(s, start_idx)
             IN  IF r.ok
                 THEN [stay EXCEPT !.done = FALSE, !.idx = r.end,
                                   !.candidates = Append(candidates, r.value)]
                 ELSE IF r.exception = "JSONDecodeError"
                 THEN [stay EXCEPT !.done = FALSE, !.idx = start_idx + 1]
                 ELSE [stay EXCEPT !.raised = <<r.exception>>]

\* "invitedUser" in cand or "id" in cand
has_recognised_key(cand) ==
    dict_has(cand.v, <<"invitedUser">>) \/ dict_has(cand.v, <<"id">>)

RECURSIVE first_recognised(_)
\* for cand in reversed(candidates): the first one with a recognised key
first_recognised(candidates) ==
    IF candidates = <<>> THEN <<>>
    ELSE IF has_recognised_key(candidates[Len(candidates)])
    THEN << candidates[Len(candidates)] >>
    ELSE first_recognised(SubSeq(candidates, 1, Len(candidates) - 1))

select_candidate_first(candidates) ==
    LET data == first_recognised(candidates)
    IN  IF (data = <<>> \/ data[1].v = <<>>) /\ candidates # <<>>
        THEN << candidates[1] >>
        ELSE data

\* data after the loop and "if not data and candidates: data = candidates[-1]"
select_candidate(candidates) ==
    LET data == first_recognised(candidates)
    IN  IF (data = <<>> \/ data[1].v = <<>>) /\ candidates # <<>>
        THEN << candidates[Len(candidates)] >>
        ELSE data

(***************************************************************************)
(* SpecJson: StudentManager._on_invite from "if result.success:" on, for   *)
(* the stdout of an invitation.  outcome holds the handler's locals; pc is *)
(* its position: the while loop, the selection, or left by an exception.   *)
(***************************************************************************)
JsonString(word) == <<Q, word, Q>>
JsonMember(key, value) == JsonString(key) \o <<":">> \o value
JsonObjectText(members) == <<"{">> \o members \o <<"}">>

InvitedUser(id) ==
    JsonObjectText(JsonMember("invitedUser", JsonObjectText(JsonMember("id", JsonString(id)))))
LogObject == JsonObjectText(JsonMember("log", JsonString("info")))
LogLine == <<"[", "INFO", "]", SP, "{", "Starting", "}", SP, "process", NL>>

\* what the stdout of an invitation is put together from
JsonPieces ==
    << LogLine, LogObject, InvitedUser("abc"), InvitedUser("def"), <<NL>>,
       <<"{", Q, "a", Q, ":", "{", Q, "a", Q, ":">>, <<"{", "Starting", "}">>, <<"{", "}">>, <<"}">>,
       JsonObjectText(JsonMember("id", <<"5">>)) >>

MaxPieces == 3

RECURSIVE JsonTexts(_)
JsonTexts(n) ==
    IF n = 0 THEN {<<>>}
    ELSE LET shorter == JsonTexts(n - 1)
         IN  shorter \cup {t \o JsonPieces[k] : t \in shorter, k \in 1..Len(JsonPieces)}

InitJson ==
    /\ text \in JsonTexts(MaxPieces)
    /\ outcome = <<>>
    /\ jobs = <<>> /\ ret = <<>> /\ nAdded = 0 /\ lastStep = NoStep
    /\ now = 0 /\ tasks = <<>> /\ call = NoCall /\ run = NoRun
    /\ delivered = <<>> /\ spawned = 0
    /\ listing = <<>> /\ labs = <<>> /\ output_display = <<>>
    /\ InitState

JsonUnchanged ==
    UNCHANGED <<text, registryVars, lastStep, dashboardVars, execVars, refreshVars, stateVars, child>>

\* candidates = []; text = result.stdout.strip(); idx = 0
InviteBegin ==
    /\ outcome = <<>>
    /\ outcome' = [pc |-> "scan", text |-> strip(text), idx |-> 1,
                   candidates |-> <<>>, data |-> <<>>, exception |-> <<>>]
    /\ JsonUnchanged

\* the while loop, one pass at a time
InviteScan ==
    /\ outcome # <<>>
    /\ outcome.pc = "scan"
    /\ LET r == scan_step(outcome.text, outcome.idx, outcome.candidates)
       IN  outcome' =
               IF r.raised # <<>>
               THEN [outcome EXCEPT !.pc = "raised", !.exception = r.raised]
               ELSE IF r.done THEN [outcome EXCEPT !.pc = "select"]
               ELSE [outcome EXCEPT !.idx = r.idx, !.candidates = r.candidates]
    /\ JsonUnchanged

\* data = None; the reversed loop; the fallback
InviteSelect ==
    /\ outcome # <<>>
    /\ outcome.pc = "select"
    /\ outcome' = [outcome EXCEPT !.pc = "selected",
                                  !.data = select_candidate(outcome.candidates)]
    /\ JsonUnchanged

NextJson == InviteBegin \/ InviteScan \/ InviteSelect

SpecJson == InitJson /\ [][NextJson]_vars

\* C15: the extractor scans left to right; at each "{" it decodes one JSON
\* value from there, on success records it and resumes just after the span
\* consumed, on failure resumes exactly one character further; it never
\* raises, and the candidates are in text order.
C15_ScanResumesAndNeverRaises ==
    [][InviteScan =>
         LET start_idx == find_brace(outcome.text, outcome.idx)
             r == raw_decode(outcome.text, start_idx)
         IN  /\ outcome'.pc # "raised"
             /\ outcome'.pc = "scan" =>
                  /\ start_idx >= outcome.idx
                  /\ r.ok => /\ outcome'.idx = r.end
                             /\ outcome'.candidates = Append(outcome.candidates, r.value)
                  /\ ~r.ok => /\ outcome'.idx = start_idx + 1
                              /\ outcome'.candidates = outcome.candidates
             /\ outcome'.pc = "select" =>
                  /\ outcome'.candidates = outcome.candidates
                  /\ \A i \in outcome.idx..Len(outcome.text) : outcome.text[i] # "{"]_vars

\* the positions of candidates that hold a recognised key
Recognised(candidates) == {i \in 1..Len(candidates) : has_recognised_key(candidates[i])}

Example2 == LogObject \o <<NL>> \o InvitedUser("abc")

\* C16: selection returns the last candidate that holds a recognised key; if
\* none holds one, the last candidate; with no candidates, nothing.  For two
\* objects of which only the second carries the key, 2 candidates are found
\* and the second is chosen.
C16_SelectionLastToFirst ==
    (outcome # <<>> /\ outcome.pc = "selected") =>
        LET c == outcome.candidates
        IN  /\ c = <<>> => outcome.data = <<>>
            /\ (c # <<>> /\ Recognised(c) = {}) => outcome.data = << c[Len(c)] >>
            /\ Recognised(c) # {} => outcome.data = << c[SetMax(Recognised(c))] >>
            /\ text = Example2 =>
                 /\ Len(c) = 2
                 /\ ~has_recognised_key(c[1])
                 /\ outcome.data = << c[2] >>
                 /\ dict_get(dict_get(c[2].v, <<"invitedUser">>).v, <<"id">>).v = <<"abc">>

\* the text of two objects of which only the second carries the key has been
\* scanned and the second candidate chosen
C16_Witness ==
    /\ outcome # <<>>
    /\ outcome.pc = "selected"
    /\ text = Example2
    /\ Len(outcome.candidates) = 2
    /\ Recognised(outcome.candidates) = {2}
    /\ outcome.data = << outcome.candidates[2] >>

(***************************************************************************)
(* services/parser.py: OutputParser.extract_lab_list and _determine_status *)
(* on the output of "az resource list".  An expiry is a local time, an     *)
(* atom of TimeAtoms, and an optional zone; the clock now counts the same  *)
(* hours in UTC.                                                           *)
(***************************************************************************)
\* bool(v)
truthy(v) ==
    CASE v.t = "None" -> FALSE
      [] v.t = "bool" -> v.v = "true"
      [] v.t = "int" -> v.v # "0"
      [] OTHER -> v.v # <<>>

\* v == <the str chars>
is_text(v, chars) == v.t = "str" /\ v.v = chars

\* d.get(key, default) of a dict value
get(d, key, default) == IF dict_has(d.v, key) THEN dict_get(d.v, key) ELSE default

\* re.search(r'\[.*\]', output, re.DOTALL): None, or the text from the first
\* "[" that a "]" follows up to the last "]"
search_array(output) ==
    LET opening == {i \in 1..Len(output) :
                      output[i] = "[" /\ \E j \in (i + 1)..Len(output) : output[j] = "]"}
    IN  IF opening = {} THEN <<>>
        ELSE << SubSeq(output, SetMin(opening),
                       SetMax({j \in 1..Len(output) : output[j] = "]"})) >>

TimeValue == [a \in {"T01", "T02"} |-> IF a = "T01" THEN 1 ELSE 2]
TimeAtoms == DOMAIN TimeValue
OffsetValue == [a \in {"+00:00", "+01:00"} |-> IF a = "+00:00" THEN 0 ELSE 1]
OffsetAtoms == DOMAIN OffsetValue

RECURSIVE replace(_, _, _)
\* s.replace(old, new), old one character
replace(s, old, new) ==
    IF s = <<>> THEN s
    ELSE (IF s[1] = old THEN <<new>> ELSE <<s[1]>>) \o replace(Tail(s), old, new)

\* datetime.fromisoformat(s): ValueError (ok FALSE), or the local time with
\* tzinfo None (<<>>) or an offset
fromisoformat(s) ==
    IF Len(s) = 1 /\ s[1] \in TimeAtoms
    THEN [ok |-> TRUE, local |-> TimeValue[s[1]], tzinfo |-> <<>>]
    ELSE IF Len(s) = 2 /\ s[1] \in TimeAtoms /\ s[2] \in OffsetAtoms
    THEN [ok |-> TRUE, local |-> TimeValue[s[1]], tzinfo |-> << OffsetValue[s[2]] >>]
    ELSE [ok |-> FALSE]

_determine_status_ignoring_zone(expiry, clock) ==
    IF is_text(expiry, <<"unknown">>) THEN Returned("_determine_status", "unknown")
    ELSE IF expiry.t # "str" THEN Raised("_determine_status", "AttributeError")
    ELSE LET s == expiry.v
             expiry_dt == IF s # <<>> /\ s[Len(s)] = "Z"
                          THEN fromisoformat(replace(s, "Z", "+00:00"))
                          ELSE fromisoformat(s)
         IN  IF ~expiry_dt.ok THEN Returned("_determine_status", "unknown")
             ELSE IF expiry_dt.local < clock
             THEN Returned("_determine_status", "expired")
             ELSE Returned("_determine_status", "running")

\* OutputParser._determine_status(expiry) when the clock reads clock (UTC):
\* datetime.now(tz) is the clock moved by the offset, utcnow() the clock
_determine_status(expiry, clock) ==
    IF is_text(expiry, <<"unknown">>) THEN Returned("_determine_status", "unknown")
    ELSE IF expiry.t # "str" THEN Raised("_determine_status", "AttributeError")
    ELSE LET s == expiry.v
             expiry_dt == IF s # <<>> /\ s[Len(s)] = "Z"
                          THEN fromisoformat(replace(s, "Z", "+00:00"))
                          ELSE fromisoformat(s)
         IN  IF ~expiry_dt.ok THEN Returned("_determine_status", "unknown")
             ELSE LET current == IF expiry_dt.tzinfo # <<>>
                                 THEN clock + expiry_dt.tzinfo[1]
                                 ELSE clock
                  IN  IF expiry_dt.local < current
                      THEN Returned("_determine_status", "expired")
                      ELSE Returned("_determine_status", "running")

unknown == py_str(<<"unknown">>)

RECURSIVE group_by_lab_id(_, _)
\* the loop "for resource in resources": lab_groups as a dict in insertion
\* order, or the exception that ends the loop
group_by_lab_id(resources, lab_groups) ==
    IF resources = <<>> THEN Returned("group", lab_groups)
    ELSE LET resource == resources[1]
         IN  IF resource.t # "dict" THEN Raised("group", "AttributeError")
             ELSE LET tags == get(resource, <<"tags">>, py_dict(<<>>))
                  IN  IF tags.t # "dict" THEN Raised("group", "AttributeError")
                      ELSE LET lab_id == get(tags, <<"lab-id">>, py_none)
                           IN  IF truthy(lab_id)
                                  /\ is_text(get(tags, <<"managed-by">>, py_none), <<"avd-lab-tool">>)
                               THEN IF lab_id.t \in {"list", "dict"}
                                    THEN Raised("group", "TypeError")
                                    ELSE IF dict_has(lab_groups, lab_id)
                                    THEN group_by_lab_id(Tail(resources), lab_groups)
                                    ELSE group_by_lab_id(Tail(resources),
                                           Append(lab_groups,
                                             << lab_id,
                                                [lab_id |-> lab_id,
                                                 participant |-> get(tags, <<"participant">>, unknown),
                                                 resource_group |-> get(resource, <<"resourceGroup">>, unknown),
                                                 location |-> get(resource, <<"location">>, unknown),
                                                 expiry |-> get(tags, <<"expiry">>, unknown)] >>))
                               ELSE group_by_lab_id(Tail(resources), lab_groups)

RECURSIVE items_of(_, _, _)
\* the loop "for lab_data in lab_groups.values()": labs, or the exception
items_of(lab_groups, clock, items) ==
    IF lab_groups = <<>> THEN Returned("extract_lab_list", items)
    ELSE LET lab_data == lab_groups[1][2]
             st == _determine_status(lab_data.expiry, clock)
         IN  IF st.raised THEN Raised("extract_lab_list", st.value)
             ELSE items_of(Tail(lab_groups), clock,
                           Append(items, [lab_id |-> lab_data.lab_id,
                                          participant |-> lab_data.participant,
                                          resource_group |-> lab_data.resource_group,
                                          location |-> lab_data.location,
                                          expiry |-> lab_data.expiry,
                                          status |-> st.value]))

\* OutputParser.extract_lab_list(output) when the clock reads clock
extract_lab_list(output, clock) ==
    LET json_match == search_array(output)
    IN  IF json_match = <<>> THEN Returned("extract_lab_list", <<>>)
        ELSE LET resources == loads(json_match[1])
             IN  IF ~resources.ok
                 THEN IF resources.exception = "JSONDecodeError"
                      THEN Returned("extract_lab_list", <<>>)
                      ELSE Raised("extract_lab_list", resources.exception)
                 ELSE LET lab_groups == group_by_lab_id(resources.value.v, <<>>)
                      IN  IF lab_groups.raised
                          THEN Raised("extract_lab_list", lab_groups.value)
                          ELSE items_of(lab_groups.value, clock, <<>>)

(***************************************************************************)
(* SpecLabs: extract_lab_list on the stdout of "az resource list -o json", *)
(* an array of resources, at some reading of the clock.                    *)
(***************************************************************************)
RECURSIVE Joined(_)
\* the texts of members or of items, with commas between them
Joined(texts) ==
    IF texts = <<>> THEN <<>>
    ELSE IF Len(texts) = 1 THEN texts[1]
    ELSE texts[1] \o <<",">> \o Joined(Tail(texts))

JsonText(chars) == <<Q>> \o chars \o <<Q>>
Tag(key, chars) == JsonMember(key, JsonText(chars))
JsonArrayText(items) == <<"[">> \o Joined(items) \o <<"]">>

\* a resource with the given tags (texts of members) and further members
Resource(tags, members) ==
    JsonObjectText(Joined(<< JsonMember("tags", JsonObjectText(Joined(tags))) >> \o members))

\* a resource of lab id that the tool manages
ManagedLab(id, tags, members) ==
    Resource(<< Tag("lab-id", id), Tag("managed-by", <<"avd-lab-tool">>) >> \o tags, members)

LabEntries ==
    << ManagedLab(<<"lab1">>, << Tag("participant", <<"p1">>), Tag("expiry", <<"T02", "Z">>) >>,
                  << Tag("resourceGroup", <<"rg1">>), Tag("location", <<"westeurope">>) >>),
       ManagedLab(<<"lab1">>, << Tag("participant", <<"p2">>), Tag("expiry", <<"unknown">>) >>,
                  << Tag("resourceGroup", <<"rg2">>) >>),
       ManagedLab(<<"lab2">>, <<>>, <<>>),
       ManagedLab(<<"lab2">>, << Tag("expiry", <<"T02">>) >>, <<>>),
       ManagedLab(<<"lab3">>, << Tag("expiry", <<"T02", "+01:00">>) >>, <<>>),
       ManagedLab(<<"lab3">>, << Tag("expiry", <<"soon">>) >>, <<>>),
       ManagedLab(<<"lab4">>, << JsonMember("expiry", <<"null">>) >>, <<>>),
       ManagedLab(<<"lab4">>, << JsonMember("participant", <<"null">>),
                                 Tag("expiry", <<"T01", "+00:00">>) >>, <<>>),
       ManagedLab(<<>>, <<>>, <<>>),
       Resource(<< Tag("lab-id", <<"lab1">>), Tag("managed-by", <<"other">>) >>, <<>>),
       Resource(<< Tag("managed-by", <<"avd-lab-tool">>) >>, <<>>),
       JsonObjectText(Tag("resourceGroup", <<"rg1">>)),
       JsonObjectText(JsonMember("tags", <<"null">>)),
       <<"5">> >>

MaxEntries == 2
MaxNow == 3

RECURSIVE EntryLists(_)
EntryLists(n) ==
    IF n = 0 THEN {<<>>}
    ELSE LET shorter == EntryLists(n - 1)
         IN  shorter \cup {Append(l, LabEntries[k]) : l \in shorter, k \in 1..Len(LabEntries)}

\* the array alone, the array after a bracketed log line, and texts that
\* hold no array or a broken one
LabTexts ==
    {prefix \o JsonArrayText(l) :
        prefix \in {<<>>, <<"[", "INFO", "]", NL>>}, l \in EntryLists(MaxEntries)}
    \cup {<<>>, <<"no", SP, "labs">>, <<"[", "{">>}

InitLabs ==
    /\ text \in LabTexts
    /\ now \in 0..MaxNow
    /\ outcome = <<>>
    /\ jobs = <<>> /\ ret = <<>> /\ nAdded = 0 /\ lastStep = NoStep
    /\ tasks = <<>> /\ call = NoCall /\ run = NoRun
    /\ delivered = <<>> /\ spawned = 0
    /\ listing = <<>> /\ labs = <<>> /\ output_display = <<>>
    /\ InitState

ExtractLabList ==
    /\ outcome = <<>>
    /\ outcome' = extract_lab_list(text, now)
    /\ UNCHANGED <<text, registryVars, lastStep, dashboardVars, execVars, refreshVars, stateVars, child>>

NextLabs == ExtractLabList

SpecLabs == InitLabs /\ [][NextLabs]_vars

\* the entries of the array in the text, when the text is one JSON array
ArrayEntries == loads(text)

\* an entry carries a lab-id tag and the tag managed-by = avd-lab-tool
Tagged(entry) ==
    /\ entry.t = "dict"
    /\ dict_has(entry.v, <<"tags">>)
    /\ dict_get(entry.v, <<"tags">>).t = "dict"
    /\ dict_has(dict_get(entry.v, <<"tags">>).v, <<"lab-id">>)
    /\ is_text(get(dict_get(entry.v, <<"tags">>), <<"managed-by">>, py_none), <<"avd-lab-tool">>)

LabIdOf(entry) == dict_get(dict_get(entry.v, <<"tags">>).v, <<"lab-id">>)

\* the tagged entries that are the first of their lab-id, in text order
FirstOfGroups(entries) ==
    SelectSeq([i \in 1..Len(entries) |-> [at |-> i, entry |-> entries[i]]],
              LAMBDA e : /\ Tagged(e.entry)
                         /\ \A j \in 1..(e.at - 1) :
                              Tagged(entries[j]) => LabIdOf(entries[j]) # LabIdOf(e.entry))

\* C12: no parser function raises; extract_lab_list returns a list for every
\* text, the empty list when the text has no JSON array, malformed JSON, or
\* an array none of whose entries carries usable tags.
C12_ExtractLabListNeverRaises ==
    outcome # <<>> =>
        /\ ~outcome.raised
        /\ (~ArrayEntries.ok \/ \A i \in 1..Len(ArrayEntries.value.v) :
                                   ~Tagged(ArrayEntries.value.v[i]))
              => outcome.value = <<>>

\* C17: one item per distinct lab-id among the entries that carry a lab-id
\* tag and managed-by = avd-lab-tool, in order of first occurrence, with
\* participant, resource group, location and expiry of the first entry of
\* the group, "unknown" where missing.
C17_OneItemPerLabId ==
    (outcome # <<>> /\ ArrayEntries.ok) =>
        LET first == FirstOfGroups(ArrayEntries.value.v)
        IN  /\ ~outcome.raised
            /\ Len(outcome.value) = Len(first)
            /\ \A i \in 1..Len(first) :
                 LET entry == first[i].entry
                     tags == dict_get(entry.v, <<"tags">>)
                     item == outcome.value[i]
                 IN  /\ item.lab_id = LabIdOf(entry)
                     /\ item.participant = get(tags, <<"participant">>, unknown)
                     /\ item.resource_group = get(entry, <<"resourceGroup">>, unknown)
                     /\ item.location = get(entry, <<"location">>, unknown)
                     /\ item.expiry = get(tags, <<"expiry">>, unknown)

\* the instant an expiry text names, in hours UTC: <<>> when it is no
\* ISO-8601 time, a time without zone read as UTC
Instant(chars) ==
    IF Len(chars) = 1 /\ chars[1] \in TimeAtoms THEN << TimeValue[chars[1]] >>
    ELSE IF Len(chars) = 2 /\ chars[1] \in TimeAtoms /\ chars[2] = "Z"
    THEN << TimeValue[chars[1]] >>
    ELSE IF Len(chars) = 2 /\ chars[1] \in TimeAtoms /\ chars[2] \in OffsetAtoms
    THEN << TimeValue[chars[1]] - OffsetValue[chars[2]] >>
    ELSE <<>>

\* C18: the status of each returned item is "expired" if its expiry instant
\* is before the current time, "running" if it is after it, "unknown" if the
\* tag is missing, is "unknown" or is no ISO-8601 instant; no other status
\* is produced.
C18_StatusFromExpiry ==
    (outcome # <<>> /\ ~outcome.raised) =>
        \A i \in 1..Len(outcome.value) :
            LET item == outcome.value[i]
                at == IF item.expiry.t = "str" THEN Instant(item.expiry.v) ELSE <<>>
            IN  /\ item.status \in {"expired", "running", "unknown"}
                /\ at = <<>> => item.status = "unknown"
                /\ (at # <<>> /\ at[1] < now) => item.status = "expired"
                /\ (at # <<>> /\ at[1] > now) => item.status = "running"
                /\ ArrayEntries.ok =>
                     LET entries == ArrayEntries.value.v
                         mine == {j \in 1..Len(entries) :
                                    Tagged(entries[j]) /\ LabIdOf(entries[j]) = item.lab_id}
                     IN  (mine # {} /\ ~dict_has(dict_get(entries[SetMin(mine)].v, <<"tags">>).v,
                                                 <<"expiry">>))
                            => item.status = "unknown"

\* an item whose expiry 02:00+01:00 passed an hour ago is listed as expired,
\* beside it an item without expiry tag as unknown
C18_Witness ==
    /\ outcome # <<>>
    /\ ~outcome.raised
    /\ now = 2
    /\ \E i \in 1..Len(outcome.value) :
         /\ outcome.value[i].expiry = py_str(<<"T02", "+01:00">>)
         /\ outcome.value[i].status = "expired"
    /\ \E i \in 1..Len(outcome.value) :
         /\ outcome.value[i].expiry = unknown
         /\ outcome.value[i].status = "unknown"

(***************************************************************************)
(* SpecRefresh: Dashboard._refresh_labs (app.py) and the listing calls of  *)
(* CliRunner (services/cli_runner.py).  listing is the "az resource list"  *)
(* child of the refresh under way, labs and output_display what the        *)
(* dashboard shows.  Bytes are a text, or bytes that are no UTF-8.         *)
(***************************************************************************)
Utf8(chars) == [ok |-> TRUE, text |-> chars]
NotUtf8 == [ok |-> FALSE]

\* the text of f"Failed to list labs: {stderr}" and f"Error refreshing labs: {e}"
FailedToList(stderr) == <<"Failed to list labs:", SP>> \o stderr
ErrorRefreshing(e) == <<"Error refreshing labs:", SP, e>>

\* the handler of "except Exception as e": the diagnostic, then self.labs = []
refresh_except(e) == [labs |-> <<>>, output_display |-> ErrorRefreshing(e)]

\* self.labs = self._parser.extract_lab_list(output), extracted what the
\* call returns or raises; self._update_table() leaves the panel alone
refresh_extracted(extracted, old_output) ==
    IF extracted.raised THEN refresh_except(extracted.value)
    ELSE [labs |-> extracted.value, output_display |-> old_output]

_refresh_labs_silent(started, returncode, stdout, stderr, clock, old_output) ==
    IF ~started \/ returncode # 0 THEN [labs |-> <<>>, output_display |-> old_output]
    ELSE IF ~stdout.ok THEN refresh_except("UnicodeDecodeError")
    ELSE refresh_extracted(extract_lab_list(stdout.text, clock), old_output)

\* Dashboard._refresh_labs: self.labs and the output panel after the call,
\* when the child could not be started, or exited with returncode having
\* written stdout and stderr
_refresh_labs(started, returncode, stdout, stderr, clock, old_output) ==
    IF ~started THEN refresh_except("FileNotFoundError")
    ELSE IF returncode = 0
    THEN IF ~stdout.ok THEN refresh_except("UnicodeDecodeError")
         ELSE refresh_extracted(extract_lab_list(stdout.text, clock), old_output)
    ELSE IF ~stderr.ok THEN refresh_except("UnicodeDecodeError")
    ELSE [labs |-> <<>>, output_display |-> FailedToList(stderr.text)]

\* return json.loads(...), and the "return []" of "except Exception"
loaded_or_empty(r) == IF r.ok THEN r.value ELSE py_list(<<>>)

\* CliRunner.list_subscriptions and list_resource_groups: what is returned
list_json(started, returncode, stdout) ==
    IF ~started THEN py_list(<<>>)
    ELSE IF returncode = 0
    THEN IF ~stdout.ok THEN py_list(<<>>)
         ELSE loaded_or_empty(loads(stdout.text))
    ELSE py_list(<<>>)

MaxRefreshes == 2

NoListing == [pc |-> "idle", refreshes |-> 0, started |-> TRUE, returncode |-> 0]

\* what "az resource list" writes to stdout and to stderr
ListingStdout ==
    {Utf8(JsonArrayText(l)) : l \in EntryLists(1)} \cup {Utf8(<<>>), NotUtf8}
ListingStderr == {Utf8(<<>>), Utf8(<<"ERROR", ":", SP, "Please", SP, "run", SP, "az", SP, "login">>), NotUtf8}
ReturnCodes == {0, 1}

\* what "az account list" and "az group list" write to stdout
AccountStdout ==
    {Utf8(JsonArrayText(<< JsonObjectText(Tag("id", <<"sub1">>)) >>)), Utf8(<<"[", "]">>),
     Utf8(<<"{", "}">>), Utf8(<<"[", "{">>), Utf8(<<>>), NotUtf8}

InitRefresh ==
    /\ listing = NoListing
    /\ labs = <<>>
    /\ output_display = <<>>
    /\ now \in 0..MaxNow
    /\ text = <<>> /\ outcome = <<>>
    /\ jobs = <<>> /\ ret = <<>> /\ nAdded = 0 /\ lastStep = NoStep
    /\ tasks = <<>> /\ call = NoCall /\ run = NoRun
    /\ delivered = <<>> /\ spawned = 0
    /\ InitState

RefreshUnchanged ==
    UNCHANGED <<registryVars, lastStep, dashboardVars, execVars, text, stateVars, child>>

\* await asyncio.create_subprocess_exec(*cmd, ...) returns the process
RefreshSpawn ==
    /\ listing.pc \in {"idle", "done"}
    /\ listing.refreshes < MaxRefreshes
    /\ listing' = [pc |-> "running", refreshes |-> listing.refreshes + 1,
                   started |-> TRUE, returncode |-> 0]
    /\ UNCHANGED <<labs, output_display, outcome>>
    /\ RefreshUnchanged

\* await asyncio.create_subprocess_exec(*cmd, ...) raises: az cannot be started
RefreshSpawnFails ==
    /\ listing.pc \in {"idle", "done"}
    /\ listing.refreshes < MaxRefreshes
    /\ \E after \in {_refresh_labs(FALSE, 0, NotUtf8, NotUtf8, now, output_display)} :
         /\ labs' = after.labs
         /\ output_display' = after.output_display
    /\ listing' = [pc |-> "done", refreshes |-> listing.refreshes + 1,
                   started |-> FALSE, returncode |-> 0]
    /\ UNCHANGED outcome
    /\ RefreshUnchanged

\* await process.communicate() returns, and the rest of _refresh_labs
RefreshCommunicate ==
    /\ listing.pc = "running"
    /\ \E returncode \in ReturnCodes, stdout \in ListingStdout, stderr \in ListingStderr :
         /\ \E after \in {_refresh_labs(TRUE, returncode, stdout, stderr, now, output_display)} :
              /\ labs' = after.labs
              /\ output_display' = after.output_display
         /\ listing' = [listing EXCEPT !.pc = "done", !.returncode = returncode]
    /\ UNCHANGED outcome
    /\ RefreshUnchanged

\* CliRunner.list_subscriptions()
ListSubscriptions ==
    /\ \E started \in BOOLEAN, returncode \in ReturnCodes, stdout \in AccountStdout :
         outcome' = Returned("list_subscriptions", list_json(started, returncode, stdout))
    /\ UNCHANGED refreshVars
    /\ RefreshUnchanged

\* CliRunner.list_resource_groups(subscription_id)
ListResourceGroups ==
    /\ \E started \in BOOLEAN, returncode \in ReturnCodes, stdout \in AccountStdout :
         outcome' = Returned("list_resource_groups", list_json(started, returncode, stdout))
    /\ UNCHANGED refreshVars
    /\ RefreshUnchanged

NextRefresh ==
    \/ RefreshSpawn
    \/ RefreshSpawnFails
    \/ RefreshCommunicate
    \/ ListSubscriptions
    \/ ListResourceGroups

SpecRefresh == InitRefresh /\ [][NextRefresh]_vars

\* the output panel shows a diagnostic of the listing
Diagnostic(shown) ==
    \/ startswith(shown, <<"Failed to list labs:">>)
    \/ startswith(shown, <<"Error refreshing labs:">>)

\* C19: when the listing command cannot be started or exits non-zero, the
\* refresh ends with an empty lab list and a diagnostic in the output panel;
\* _refresh_labs, list_subscriptions and list_resource_groups end by
\* returning, never by an exception.
C19_FailedListingIsEmptyWithDiagnostic ==
    /\ (listing.pc = "done" /\ (~listing.started \/ listing.returncode # 0)) =>
          /\ labs = <<>>
          /\ Diagnostic(output_display)
    /\ outcome # <<>> => ~outcome.raised

\* a refresh that listed a lab is followed by one whose command exits
\* non-zero: the list is empty again and the panel says why
C19_Witness ==
    /\ listing.pc = "done"
    /\ listing.refreshes = 2
    /\ listing.started
    /\ listing.returncode # 0
    /\ labs = <<>>
    /\ startswith(output_display, <<"Failed to list labs:">>)

(***************************************************************************)
(* services/state.py: the persisted UI state.  The state file holds the    *)
(* dictionary json.dump wrote; strings, lists and None come back from      *)
(* json.load as they were written.                                         *)
(***************************************************************************)
MAX_RECENT_PARTICIPANTS == 10
MAX_RECENT_LAB_IDS == 20
MAX_RECENT_RG_NAMES == 10

MaxStateJobs == 2   \* add_job calls in the state-file specification

\* l.remove(x): the list without the first occurrence of x
remove(l, x) ==
    LET i == CHOOSE k \in 1..Len(l) : l[k] = x /\ \A m \in 1..(k - 1) : l[m] # x
    IN  SubSeq(l, 1, i - 1) \o SubSeq(l, i + 1, Len(l))

\* if x in l: l.remove(x); l.insert(0, x); while len(l) > limit: l.pop()
add_recent(l, x, limit) ==
    LET ins == <<x>> \o (IF x \in Range(l) THEN remove(l, x) ELSE l)
    IN  SubSeq(ins, 1, Min(Len(ins), limit))

\* asdict(self._state): every field of UIState, the jobs as dictionaries
asdict(st, js) ==
    [recent_participants |-> st.recent_participants,
     last_config_path |-> st.last_config_path,
     last_ttl |-> st.last_ttl,
     recently_selected_lab_ids |-> st.recently_selected_lab_ids,
     last_refresh_time |-> st.last_refresh_time,
     last_subscription_id |-> st.last_subscription_id,
     last_rg_mode |-> st.last_rg_mode,
     recent_rg_names |-> st.recent_rg_names,
     jobs |-> js]

\* StateManager._save_state: the file after json.dump(asdict(self._state), f)
_save_state(st, js) == << asdict(st, js) >>

\* StateManager._load_state: the UIState built from the file; jobs is not
\* passed to UIState(...), so the registry starts empty
_load_state(file) ==
    IF file = NoFile THEN UIState
    ELSE [f \in DOMAIN UIState |-> file[1][f]]

StateParticipants == {<<"anna">>, <<"bob">>}

StateFrame == UNCHANGED <<dashboardVars, execVars, parserVars, refreshVars, child>>

\* what a saving operation leaves alone
SavedFrame(op) ==
    /\ lastStep' = [op |-> op, task |-> 0, id |-> <<>>]
    /\ UNCHANGED registryVars
    /\ StateFrame

\* StateManager() is constructed anew (the TUI is started again)
StateManagerInit ==
    /\ state' = _load_state(state_file)
    /\ jobs' = <<>>
    /\ lastStep' = [op |-> "__init__", task |-> 0, id |-> <<>>]
    /\ UNCHANGED <<ret, nAdded, state_file>>
    /\ StateFrame

StateAddJob ==
    /\ nAdded < MaxStateJobs
    /\ jobs' = add_job(jobs, Job(RegId(nAdded + 1), "create", <<"p">>, "running", 0))
    /\ nAdded' = nAdded + 1
    /\ lastStep' = [op |-> "add_job", task |-> 0, id |-> RegId(nAdded + 1)]
    /\ UNCHANGED <<ret, stateVars, child>>
    /\ StateFrame

StateUpdateJob ==
    \E id \in {RegId(1), RegId(0)} :
        LET u == update_job(jobs, id, [status |-> "succeeded", duration |-> <<1>>])
        IN  /\ jobs' = u.jobs
            /\ ret' = u.ret
            /\ lastStep' = [op |-> "update_job", task |-> 0, id |-> id]
            /\ UNCHANGED <<nAdded, stateVars, child>>
            /\ StateFrame

AddRecentParticipant ==
    \E p \in StateParticipants :
        /\ state' = [state EXCEPT !.recent_participants = add_recent(@, p, MAX_RECENT_PARTICIPANTS)]
        /\ state_file' = _save_state(state', jobs)
        /\ SavedFrame("add_recent_participant")

SetLastConfigPath ==
    /\ state' = [state EXCEPT !.last_config_path = << <<"/", "lab.json">> >>]
    /\ state_file' = _save_state(state', jobs)
    /\ SavedFrame("set_last_config_path")

SetLastTtl ==
    /\ state' = [state EXCEPT !.last_ttl = "1d"]
    /\ state_file' = _save_state(state', jobs)
    /\ SavedFrame("set_last_ttl")

AddRecentLabId ==
    /\ state' = [state EXCEPT !.recently_selected_lab_ids = add_recent(@, <<"lab1">>, MAX_RECENT_LAB_IDS)]
    /\ state_file' = _save_state(state', jobs)
    /\ SavedFrame("add_recent_lab_id")

\* datetime.now(timezone.utc).isoformat() is the reading of the clock
UpdateRefreshTime ==
    /\ state' = [state EXCEPT !.last_refresh_time = <<now>>]
    /\ state_file' = _save_state(state', jobs)
    /\ SavedFrame("update_refresh_time")

SetLastSubscriptionId ==
    \E subscription_id \in {<<>>, <<"sub1">>} :
        /\ state' = [state EXCEPT !.last_subscription_id = subscription_id]
        /\ state_file' = _save_state(state', jobs)
        /\ SavedFrame("set_last_subscription_id")

SetLastRgMode ==
    /\ state' = [state EXCEPT !.last_rg_mode = "existing"]
    /\ state_file' = _save_state(state', jobs)
    /\ SavedFrame("set_last_rg_mode")

AddRecentRgName ==
    /\ state' = [state EXCEPT !.recent_rg_names = add_recent(@, <<"rg1">>, MAX_RECENT_RG_NAMES)]
    /\ state_file' = _save_state(state', jobs)
    /\ SavedFrame("add_recent_rg_name")

\* self._state = UIState(): the jobs of the session go with the old state
ResetState ==
    /\ state' = UIState
    /\ jobs' = <<>>
    /\ state_file' = _save_state(UIState, <<>>)
    /\ lastStep' = [op |-> "reset_state", task |-> 0, id |-> <<>>]
    /\ UNCHANGED <<ret, nAdded>>
    /\ StateFrame

InitStateManager ==
    /\ jobs = <<>>
    /\ ret = <<>>
    /\ nAdded = 0
    /\ lastStep = NoStep
    /\ InitOther

NextState ==
    \/ StateManagerInit
    \/ StateAddJob
    \/ StateUpdateJob
    \/ AddRecentParticipant
    \/ SetLastConfigPath
    \/ SetLastTtl
    \/ AddRecentLabId
    \/ UpdateRefreshTime
    \/ SetLastSubscriptionId
    \/ SetLastRgMode
    \/ AddRecentRgName
    \/ ResetState

SpecState == InitStateManager /\ [][NextState]_vars

\* C21: the job registry is ephemeral: whatever add_job, update_job and saving
\* operations have run, the persisted state file holds no job record.
C21_NoJobRecordInStateFile ==
    state_file # NoFile => state_file[1].jobs = <<>>

(***************************************************************************)
(* The argument vectors of the verb wrappers.                              *)
(***************************************************************************)
\* the positions of the argument vector that hold this text
Positions(cmd, arg) == {i \in 1..Len(cmd) : cmd[i] = arg}

\* the option occurs once and the argument after it is the value
OptionWithValue(cmd, option, value) ==
    /\ Cardinality(Positions(cmd, option)) = 1
    /\ \E i \in Positions(cmd, option) : i < Len(cmd) /\ cmd[i + 1] = value

TargetOptions == { <<"--lab-id">>, <<"--participant">> }

\* the target options among the arguments
TargetsOf(cmd) == {i \in 1..Len(cmd) : cmd[i] \in TargetOptions}

\* C22: every argv destroy hands to run_command holds --yes and exactly one
\* target option with its value, --lab-id <id> when a lab id is given (also when
\* a participant is given too), otherwise --participant <slug>; with neither,
\* nothing is run.  status likewise passes exactly one of the two options.
C22_ExactlyOneTarget ==
    (call.pc # "idle" /\ call.args.verb \in {"destroy", "status"}) =>
        LET c == call.args
        IN  /\ (~Truthy(c.lab_id) /\ ~Truthy(c.participant)) => run = NoRun
            /\ Truthy(c.lab_id) => run # NoRun
            /\ run # NoRun =>
                 /\ run.cmd[2] = <<c.verb>>
                 /\ c.verb = "destroy" => Positions(run.cmd, <<"--yes">>) # {}
                 /\ Cardinality(TargetsOf(run.cmd)) = 1
                 /\ IF Truthy(c.lab_id)
                    THEN OptionWithValue(run.cmd, <<"--lab-id">>, c.lab_id[1])
                    ELSE OptionWithValue(run.cmd, <<"--participant">>, c.participant[1])

\* destroy was called with a lab id and a participant, and run_command has the
\* lab id alone
C22_Witness ==
    /\ call.pc # "idle"
    /\ call.args.verb = "destroy"
    /\ Truthy(call.args.lab_id)
    /\ Truthy(call.args.participant)
    /\ run # NoRun
    /\ run.cmd = <<SCRIPT_PATH, <<"destroy">>, <<"--yes">>, <<"--lab-id">>, <<"azure-test-1">> >>

\* the inputs of a create call pass the wrapper's three checks
ValidCreate(c) ==
    /\ validate_config_path(c.config_path)
    /\ validate_participant(c.participant)
    /\ validate_ttl(c.ttl)

\* C23: create with valid inputs calls run_command with an argv that starts
\* with "create" and holds --config, --participant and --ttl each immediately
\* followed by its value, --subscription <id> if and only if a subscription id
\* is supplied and --rg-name <name> if and only if a resource group name is
\* supplied; every value is one argument, unmodified.
C23_CreateArgv ==
    (call.pc # "idle" /\ call.args.verb = "create" /\ ValidCreate(call.args)) =>
        LET c == call.args
        IN  /\ run # NoRun
            /\ spawned <= 1
            /\ run.cmd[1] = SCRIPT_PATH
            /\ run.cmd[2] = <<"create">>
            /\ OptionWithValue(run.cmd, <<"--config">>, c.config_path)
            /\ OptionWithValue(run.cmd, <<"--participant">>, c.participant)
            /\ OptionWithValue(run.cmd, <<"--ttl">>, c.ttl)
            /\ IF Truthy(c.subscription_id)
               THEN OptionWithValue(run.cmd, <<"--subscription">>, c.subscription_id[1])
               ELSE Positions(run.cmd, <<"--subscription">>) = {}
            /\ IF Truthy(c.rg_name)
               THEN OptionWithValue(run.cmd, <<"--rg-name">>, c.rg_name[1])
               ELSE Positions(run.cmd, <<"--rg-name">>) = {}

\* create was called with a subscription id and a resource group name that
\* holds a space; the name is one argument of the vector
C23_Witness ==
    /\ call.pc # "idle"
    /\ call.args.verb = "create"
    /\ call.args.subscription_id = << <<"sub-123">> >>
    /\ call.args.rg_name = << <<"rg", SP, "one">> >>
    /\ run # NoRun
    /\ Len(run.cmd) = 14
    /\ run.cmd[13] = <<"--rg-name">>
    /\ run.cmd[14] = <<"rg", SP, "one">>

\* every character of the text is a lowercase letter, a digit or "-", and
\* there is at least one
SlugOnly(s) ==
    /\ s # <<>>
    /\ \A i \in 1..Len(s) : s[i] \in LowerLetters \cup DigitChars \cup {"-"}

\* one or more digits, then a single "h" or "d", and nothing else
DigitsThenUnit(t) ==
    /\ Len(t) >= 2
    /\ \A i \in 1..(Len(t) - 1) : t[i] \in DigitChars
    /\ t[Len(t)] \in {"h", "d"}

\* C24: validate_participant(s) is true exactly when s is non-empty and each of
\* its characters is a lowercase letter, a digit or "-"; validate_ttl(t) is true
\* exactly when t is one or more digits followed by a single "h" or "d" and
\* nothing else, no whitespace or line break anywhere.  Seen at a create call
\* with a good config path, which reaches run_command exactly when both hold.
C24_ValidatorsAcceptExactlyThePattern ==
    (call.pc # "idle" /\ call.args.verb = "create") =>
        /\ validate_participant(call.args.participant) = SlugOnly(call.args.participant)
        /\ validate_ttl(call.args.ttl) = DigitsThenUnit(call.args.ttl)
        /\ validate_config_path(call.args.config_path) =>
             ((run # NoRun) = (SlugOnly(call.args.participant) /\ DigitsThenUnit(call.args.ttl)))

(***************************************************************************)
(* SpecPure: the functions of OutputParser called again and again, on      *)
(* texts of a small set, while the clock advances.  OutputParser has no    *)
(* instance attribute and its functions assign none, so a call leaves      *)
(* nothing behind; what a call can read besides its argument is the clock. *)
(* outcome holds one earlier call the caller kept the result of, the       *)
(* latest call, and the number of calls so far.                            *)
(***************************************************************************)
MaxCalls == 3       \* calls of parser functions

PureTexts ==
    { JoinWith(<<NL>>, << PATTERNS.lab_id \o <<SP, "lab1">>,
                          <<"[ERROR]", SP, "boom">>,
                          PATTERNS.total_cost \o <<SP, "$", "4.56", SP, "USD">> >>),
      JsonArrayText(<< LabEntries[1] >>),
      JsonArrayText(<< LabEntries[13] >>) }

NoCalls == [kept |-> <<>>, last |-> <<>>, calls |-> 0]

InitPure ==
    /\ text = <<>>
    /\ outcome = NoCalls
    /\ now = 0
    /\ jobs = <<>> /\ ret = <<>> /\ nAdded = 0 /\ lastStep = NoStep
    /\ tasks = <<>> /\ call = NoCall /\ run = NoRun
    /\ delivered = <<>> /\ spawned = 0
    /\ listing = <<>> /\ labs = <<>> /\ output_display = <<>>
    /\ InitState

PureUnchanged ==
    UNCHANGED <<registryVars, lastStep, tasks, execVars, refreshVars, stateVars, child>>

\* time passes between two calls
PureTick ==
    /\ now < MaxNow
    /\ now' = now + 1
    /\ UNCHANGED <<text, outcome>>
    /\ PureUnchanged

\* outcome after a call of fn on t has ended with r at the reading clock of
\* the clock; the caller keeps this result for later (keep) or does not
called(o, fn, t, clock, r, keep) ==
    LET rec == [fn |-> fn, text |-> t, at |-> clock, result |-> r]
    IN  [kept |-> IF keep /\ o.kept = <<>> THEN <<rec>> ELSE o.kept,
         last |-> <<rec>>,
         calls |-> o.calls + 1]

\* the parse function named fn applied to t
ParserCall(fn, t) ==
    CASE fn = "parse_validation" -> Returned(fn, parse_validation(t))
      [] fn = "parse_create" -> Returned(fn, parse_create(t))
      [] fn = "parse_status" -> Returned(fn, parse_status(t))
      [] fn = "parse_destroy" -> Returned(fn, parse_destroy(t))
      [] fn = "parse_cost_estimate" -> Returned(fn, parse_cost_estimate(t))

\* the outcomes of the calls of the model, computed once: the parse functions
\* read their argument alone, extract_lab_list its argument and the clock
ParseOutcomes == [fn \in ParseFunctions |-> [t \in PureTexts |-> ParserCall(fn, t)]]
LabListOutcomes == [t \in PureTexts |-> [clock \in 0..MaxNow |-> extract_lab_list(t, clock)]]

PureParseValidation ==
    /\ outcome.calls < MaxCalls
    /\ \E t \in PureTexts, keep \in BOOLEAN :
         /\ text' = t
         /\ outcome' = called(outcome, "parse_validation", t, now, ParseOutcomes["parse_validation"][t], keep)
    /\ UNCHANGED now
    /\ PureUnchanged

PureParseCreate ==
    /\ outcome.calls < MaxCalls
    /\ \E t \in PureTexts, keep \in BOOLEAN :
         /\ text' = t
         /\ outcome' = called(outcome, "parse_create", t, now, ParseOutcomes["parse_create"][t], keep)
    /\ UNCHANGED now
    /\ PureUnchanged

PureParseStatus ==
    /\ outcome.calls < MaxCalls
    /\ \E t \in PureTexts, keep \in BOOLEAN :
         /\ text' = t
         /\ outcome' = called(outcome, "parse_status", t, now, ParseOutcomes["parse_status"][t], keep)
    /\ UNCHANGED now
    /\ PureUnchanged

PureParseDestroy ==
    /\ outcome.calls < MaxCalls
    /\ \E t \in PureTexts, keep \in BOOLEAN :
         /\ text' = t
         /\ outcome' = called(outcome, "parse_destroy", t, now, ParseOutcomes["parse_destroy"][t], keep)
    /\ UNCHANGED now
    /\ PureUnchanged

PureParseCostEstimate ==
    /\ outcome.calls < MaxCalls
    /\ \E t \in PureTexts, keep \in BOOLEAN :
         /\ text' = t
         /\ outcome' = called(outcome, "parse_cost_estimate", t, now, ParseOutcomes["parse_cost_estimate"][t], keep)
    /\ UNCHANGED now
    /\ PureUnchanged

PureExtractLabList ==
    /\ outcome.calls < MaxCalls
    /\ \E t \in PureTexts, keep \in BOOLEAN :
         /\ text' = t
         /\ outcome' = called(outcome, "extract_lab_list", t, now, LabListOutcomes[t][now], keep)
    /\ UNCHANGED now
    /\ PureUnchanged

NextPure ==
    \/ PureTick
    \/ PureParseValidation
    \/ PureParseCreate
    \/ PureParseStatus
    \/ PureParseDestroy
    \/ PureParseCostEstimate
    \/ PureExtractLabList

SpecPure == InitPure /\ [][NextPure]_vars

\* the kept call and the latest call are calls of one function on one text
SameCall ==
    /\ outcome.kept # <<>>
    /\ outcome.kept[1].fn = outcome.last[1].fn
    /\ outcome.kept[1].text = outcome.last[1].text

\* two lists of lab items are alike but for the status of the items
AlikeButStatus(a, b) ==
    /\ Len(a) = Len(b)
    /\ \A i \in 1..Len(a) : [a[i] EXCEPT !.status = "any"] = [b[i] EXCEPT !.status = "any"]

\* two outcomes of extract_lab_list differ in nothing but the status of items
SameButStatus(r1, r2) ==
    /\ r1.raised = r2.raised
    /\ IF r1.raised THEN r1.value = r2.value ELSE AlikeButStatus(r1.value, r2.value)

MaxSectionLines == 2    \* lines after the header of a section

SectionHeaders ==
    { <<"Tags", ":">>,
      <<"Session", SP, "Hosts", ":">>,
      <<"Virtual", SP, "Machines", ":">>,
      <<"Resources", SP, "to", SP, "be", SP, "deleted", ":">> }

\* an entry whose value holds the separator, a plain entry, a list item, and
\* a line that is not indented
SectionLines ==
    { <<SP, SP, "vm-0", ":", SP, "Unavailable", ":", SP, "no", SP, "heartbeat">>,
      <<SP, SP, "owner", ":", SP, "anna">>,
      <<SP, SP, "-", SP, "rg-lab1">>,
      <<"Done">> }

SectionTexts ==
    UNION { { JoinWith(<<NL>>, <<h>> \o ls) : h \in SectionHeaders, ls \in [1..k -> SectionLines] } :
            k \in 0..MaxSectionLines }

InitSections ==
    /\ text \in SectionTexts
    /\ outcome = <<>>
    /\ now = 0
    /\ jobs = <<>> /\ ret = <<>> /\ nAdded = 0 /\ lastStep = NoStep
    /\ tasks = <<>> /\ call = NoCall /\ run = NoRun
    /\ delivered = <<>> /\ spawned = 0
    /\ listing = <<>> /\ labs = <<>> /\ output_display = <<>>
    /\ InitState

NextSections == ParseStatus \/ ParseDestroy

SpecSections == InitSections /\ [][NextSections]_vars

RECURSIVE IndentedPrefix(_)
\* the lines up to the first that does not begin with two spaces
IndentedPrefix(ls) ==
    IF ls = <<>> \/ ~startswith(ls[1], <<SP, SP>>) THEN <<>>
    ELSE <<ls[1]>> \o IndentedPrefix(Tail(ls))

\* the header of the text and the indented lines that directly follow it
HeaderOf(t) == split(t, NL)[1]
BodyOf(t) == IndentedPrefix(Tail(split(t, NL)))

\* the lines that hold the separator, each split at its first separator
SplitAtFirst(ls) ==
    LET entries == SelectSeq(ls, LAMBDA l : Contains(l, ":"))
    IN  [i \in 1..Len(entries) |->
            [name |-> strip(BeforeFirst(strip(entries[i]), ":")),
             status |-> strip(AfterFirst(strip(entries[i]), ":"))]]

\* the list items of the lines, without their "- "
ListItems(ls) ==
    LET items == SelectSeq(ls, LAMBDA l : startswith(strip(l), <<"-", SP>>))
    IN  [i \in 1..Len(items) |-> strip(SubSeq(strip(items[i]), 3, Len(strip(items[i]))))]

\* C26: each list-shaped section of status and destroy output (tags, session
\* hosts, virtual machines, resources to be deleted) is parsed from the
\* indented lines that directly follow its header, up to the first line that
\* is not indented, and each entry is split at its first separator, so that a
\* value that holds the separator is kept whole.
C26_SectionsSplitAtFirstSeparator ==
    outcome # <<>> =>
        LET entries == SplitAtFirst(BodyOf(text))
        IN  /\ (outcome.fn = "parse_status" /\ HeaderOf(text) = <<"Tags", ":">>) =>
                 Range(outcome.value.tags) = {<<entries[i].name, entries[i].status>> : i \in 1..Len(entries)}
            /\ (outcome.fn = "parse_status" /\ HeaderOf(text) = <<"Session", SP, "Hosts", ":">>) =>
                 outcome.value.session_hosts = entries
            /\ (outcome.fn = "parse_status" /\ HeaderOf(text) = <<"Virtual", SP, "Machines", ":">>) =>
                 outcome.value.vms = entries
            /\ (outcome.fn = "parse_destroy"
                   /\ HeaderOf(text) = <<"Resources", SP, "to", SP, "be", SP, "deleted", ":">>) =>
                 outcome.value.resources_deleted = ListItems(BodyOf(text))

(***************************************************************************)
(* The dashboard's jobs and the tasks that were created for them.          *)
(***************************************************************************)
\* the task has ended: its coroutine returned, or an exception left it
Ended(t) == t.pc \in {"done", "raised"}

\* the jobs of the registry that carry the id the task was created with
JobsOf(t) == {k \in 1..Len(jobs) : jobs[k].id = t.job_id}

\* C27: every dispatched job (create, destroy, validate, refresh) is in the
\* registry before its task starts and is updated to a terminal status once
\* the task's child has exited: no job that is still in the registry stays
\* "running" after its task has ended, when nothing is left to update it.
C27_EndedTaskLeavesTerminalJob ==
    \A i \in 1..Len(tasks) :
        /\ tasks[i].pc = "created" => JobsOf(tasks[i]) # {}
        /\ Ended(tasks[i]) => \A k \in JobsOf(tasks[i]) : jobs[k].status \in TerminalStatuses

(***************************************************************************)
(* SpecDrain: run_command and its child.  The child writes its lines into  *)
(* two pipes of bounded capacity and blocks on a full pipe; it exits when  *)
(* it has written everything, which closes both pipes.  readline returns a *)
(* line once the pipe holds one, and b"" at a closed, empty pipe.          *)
(*   child.todo   per stream, the number of lines still to be written      *)
(*   child.pipe   per stream, the lines written and not yet read           *)
(***************************************************************************)
MaxWrites == 2      \* lines the child writes to one stream
PipeCapacity == 1   \* lines a pipe holds before a write blocks

InitDrain ==
    /\ call = NoCall
    /\ run = NoRun
    /\ delivered = <<>>
    /\ spawned = 0
    /\ jobs = <<>> /\ ret = <<>> /\ nAdded = 0 /\ lastStep = NoStep
    /\ now = 0 /\ tasks = <<>>
    /\ text = <<>> /\ outcome = <<>>
    /\ listing = <<>> /\ labs = <<>> /\ output_display = <<>>
    /\ InitState

DrainUnchanged ==
    UNCHANGED <<call, registryVars, lastStep, dashboardVars, parserVars, refreshVars, stateVars>>

\* run_command("status", "--lab-id", "lab1", ...) up to its first await
DrainBegin ==
    /\ run = NoRun
    /\ \E callback \in BOOLEAN :
         run' = run_command_begin(<<"status">>, << <<"--lab-id">>, <<"lab1">> >>, callback)
    /\ UNCHANGED <<delivered, spawned, child>>
    /\ DrainUnchanged

DrainSpawnFails ==
    /\ run.pc = "spawning"
    /\ \E e \in SpawnErrors : run' = spawn_failed(run, e)
    /\ UNCHANGED <<delivered, spawned, child>>
    /\ DrainUnchanged

\* the child is started; how much it is going to write is its own matter
DrainSpawnOk ==
    /\ run.pc = "spawning"
    /\ run' = spawn_ok(run)
    /\ spawned' = spawned + 1
    /\ \E todo \in [Streams -> 0..MaxWrites] :
         child' = [pc |-> "running", todo |-> todo,
                   pipe |-> [st \in Streams |-> <<>>], code |-> <<>>]
    /\ UNCHANGED delivered
    /\ DrainUnchanged

\* the child writes a line to a pipe that has room
ChildWrite ==
    /\ child.pc = "running"
    /\ \E st \in Streams :
         /\ child.todo[st] > 0
         /\ Len(child.pipe[st]) < PipeCapacity
         /\ \E raw \in RawLines[st] :
              child' = [child EXCEPT !.todo[st] = @ - 1, !.pipe[st] = Append(@, raw)]
    /\ UNCHANGED <<run, delivered, spawned>>
    /\ DrainUnchanged

\* the child has written everything and exits; its ends of the pipes close
ChildExit ==
    /\ child.pc = "running"
    /\ \A st \in Streams : child.todo[st] = 0
    /\ \E code \in ChildExitCodes : child' = [child EXCEPT !.pc = "exited", !.code = <<code>>]
    /\ UNCHANGED <<run, delivered, spawned>>
    /\ DrainUnchanged

\* a reader's readline returns a line: append, then the callback
DrainReadLine ==
    /\ run.pc \in {"draining", "returned"}
    /\ \E st \in Streams :
         /\ run.rd[st] = "reading"
         /\ child.pipe[st] # <<>>
         /\ run' = read_line(run, st, Head(child.pipe[st]))
         /\ child' = [child EXCEPT !.pipe[st] = Tail(@)]
         /\ delivered' = IF run.callback
                         THEN Append(delivered, [stream |-> st, line |-> decoded(Head(child.pipe[st]))])
                         ELSE delivered
    /\ UNCHANGED spawned
    /\ DrainUnchanged

\* a reader's readline raises: the line is longer than the reader's limit
DrainReadRaises ==
    /\ run.pc \in {"draining", "returned"}
    /\ \E st \in Streams, e \in ReadErrors :
         /\ run.rd[st] = "reading"
         /\ child.pipe[st] # <<>>
         /\ run' = read_raised(run, st, e)
         /\ child' = [child EXCEPT !.pipe[st] = Tail(@)]
    /\ UNCHANGED <<delivered, spawned>>
    /\ DrainUnchanged

\* a reader's readline returns b"": the pipe is empty and closed
DrainReadEof ==
    /\ run.pc \in {"draining", "returned"}
    /\ \E st \in Streams :
         /\ run.rd[st] = "reading"
         /\ child.pipe[st] = <<>>
         /\ child.pc = "exited"
         /\ run' = read_eof(run, st)
    /\ UNCHANGED <<delivered, spawned, child>>
    /\ DrainUnchanged

\* gather returned and process.wait() returns the exit code
DrainProcessWait ==
    /\ run.pc = "draining"
    /\ Drained(run)
    /\ child.pc = "exited"
    /\ run' = process_wait(run, child.code[1])
    /\ UNCHANGED <<delivered, spawned, child>>
    /\ DrainUnchanged

NextDrain ==
    \/ DrainBegin
    \/ DrainSpawnFails
    \/ DrainSpawnOk
    \/ ChildWrite
    \/ ChildExit
    \/ DrainReadLine
    \/ DrainReadRaises
    \/ DrainReadEof
    \/ DrainProcessWait

SpecDrain == InitDrain /\ [][NextDrain]_vars

\* The event loop runs every coroutine that can continue, the operating
\* system ends the attempt to start the child, and the child keeps writing
\* while it has room, then exits.
SpecDrainFair ==
    /\ SpecDrain
    /\ WF_vars(DrainSpawnOk \/ DrainSpawnFails)
    /\ WF_vars(ChildWrite)
    /\ WF_vars(ChildExit)
    /\ WF_vars(DrainReadLine \/ DrainReadRaises \/ DrainReadEof)
    /\ WF_vars(DrainProcessWait)

\* C28: if the child eventually closes both streams and exits, run_command
\* eventually returns a CommandResult, for every interleaving and volume of
\* the child's writes to its two streams: both streams are drained
\* concurrently, so the child never stays blocked on a full pipe.
C28_RunCommandReturns ==
    (run.pc = "spawning") ~> (run.pc = "returned" /\ run.result # <<>>)

\* the child wrote more than a pipe holds to each of its streams and exited
\* with code 2; run_command has returned all four lines and the code
C28_Witness ==
    /\ run.pc = "returned"
    /\ child.pc = "exited"
    /\ run.exited = <<2>>
    /\ Len(run.lines["stdout"]) = 2
    /\ Len(run.lines["stderr"]) = 2
    /\ run.result[1].exit_code = 2
    /\ run.result[1].stderr = <<"warn", NL, "warn">>

\* C29: for each dashboard job, every last_log update made by its log callback
\* happens before the update that sets its terminal status and duration: once
\* a job is succeeded or failed, no step changes its last_log.
C29_LastLogFrozenOnceTerminal ==
    [][\A j \in 1..Len(jobs) :
          JobOf(jobs, j).status \in {"succeeded", "failed"} =>
              JobOf(jobs', j).last_log = JobOf(jobs, j).last_log]_vars

\* C30: a refresh job never ends in status failed: whatever the listing
\* command did, _refresh_labs returns and do_refresh updates its job to
\* succeeded, so no refresh job is ever failed and, once the task of a refresh
\* has ended, the job it was dispatched for is succeeded.
C30_RefreshJobEndsSucceeded ==
    /\ \A k \in 1..Len(jobs) : jobs[k].type = "refresh" => jobs[k].status # "failed"
    /\ \A i \in 1..Len(tasks) :
          (tasks[i].type = "refresh" /\ Ended(tasks[i])) =>
              \A k \in JobsOf(tasks[i]) : jobs[k].status = "succeeded"

====
